---- MODULE Spec2Model ----
(***************************************************************************)
(* Generation queue, admission control and artifact store of benana.      *)
(*                                                                         *)
(* One process at a time runs the scheduler (GenerationQueue) on a single  *)
(* event loop: every public call and every continuation of a suspended     *)
(* job runs to its next await without interleaving, so each action below   *)
(* is one such synchronous run.  The job table, the usage log, the image   *)
(* and reference rows and the files survive a crash; activeRuns, paused    *)
(* and the suspended job executions do not.                                *)
(*                                                                         *)
(* Money is named by its thousandths of a dollar (the precision of        *)
(* normalizeSpendLimit and formatUsd); the program holds it in doubles,    *)
(* and where the rounding of a double sum decides a comparison it is       *)
(* modelled (RoundsUp).                                                    *)
(***************************************************************************)
EXTENDS Integers, Sequences, FiniteSets, TLC

\* ---- bounds of the model ------------------------------------------------
MaxJobs == 3
MaxIds == 4
MaxRefs == 1
MaxCrashes == 1
MaxTime == 2
MaxTicks == 2
RetryJobs == 1
MaxKeyLen == 2
MaxAssets == 15
MaxPromptLen == 2
StoreJobs == 2

\* ---- program constants --------------------------------------------------
MAX_BATCH_COUNT == 4
MAX_RETRIES == 3
RETRY_BASE_DELAY_MS == 800
MinConcurrency == 1
MaxConcurrency == 8
DefaultConcurrency == 2
Cost4K == 240
CostDefault == 134

\* ---- input domains ------------------------------------------------------
JobIds == 1..MaxIds
UnknownId == 0
Resolutions == {"1K", "4K"}
RefCounts == 0..MaxRefs
BatchInputs == {1, 2}
ConcurrencyInputs == {0, 2}
Priorities == {0, 5}
NoLimit == -1
\* <<monthlySpendLimitUsd, totalSpendLimitUsd>> of the configurations explored
Limited == <<508, 614>>
Unlimited == <<NoLimit, NoLimit>>
NoImage == <<>>

VARIABLES
  jobs,          \* queue_jobs table: job id -> row (status "none": no such row)
  usageLog,      \* usage_log table: cost_estimate of each entry, oldest first
  aged,          \* how many of the oldest usage entries are older than one month
  images,        \* images table: ids of the rows
  refRows,       \* reference_images table: <<image id, position>>
  files,         \* files on disk
  activeRuns,    \* GenerationQueue.activeRuns
  paused,        \* GenerationQueue.paused
  concurrency,   \* GenerationQueue.concurrency
  exec,          \* job id -> where the suspended execution of runJob stands
  monthlyLimit,  \* config.monthlySpendLimitUsd
  totalLimit,    \* config.totalSpendLimitUsd
  apiKey,        \* whether configStore.getApiKey() returns a key
  phase,         \* "up": a scheduler is constructed; "down"/"requeued": restart
  ret,           \* the last public call not yet returned: its arguments and outcome
  trail,         \* job id -> the status writes made to its row, in order
  raised,        \* image ids whose persistGeneratedImage re-raised an error
  crashes,       \* how many times the process died
  now,           \* the clock, in milliseconds
  calls,         \* job id -> the remote calls generate() made for it, in order
  seen,          \* image ids whose row a list or get query has returned
  events         \* job id -> the job-completed and job-failed events emitted for it

vars == <<jobs, usageLog, aged, images, refRows, files, activeRuns, paused,
          concurrency, exec, monthlyLimit, totalLimit, apiKey, phase,
          ret, trail, raised, crashes, now, calls, seen, events>>

\* ---- rows ----------------------------------------------------------------
NoJob == [status |-> "none", resolution |-> "1K", nrefs |-> 0, batchCount |-> 0,
          priority |-> 0, createdAt |-> 0, startedAt |-> FALSE,
          completedAt |-> FALSE, error |-> "none", resultId |-> NoImage]

\* attempts and at are the loop counter of generate() and the time its current
\* remote call was issued (while it backs off: the time the last one failed)
Idle == [pc |-> "idle", k |-> 0, written |-> {}, inserted |-> {}, attempts |-> 0, at |-> 0]

NoRet == [op |-> "none"]

Terminal == {"completed", "failed", "cancelled"}
Open == {"pending", "running"}

Min(a, b) == IF a < b THEN a ELSE b
Max(a, b) == IF a > b THEN a ELSE b

RECURSIVE SumSeq(_)
SumSeq(s) == IF s = <<>> THEN 0 ELSE Head(s) + SumSeq(Tail(s))

RECURSIVE SumOver(_, _)
SumOver(S, f) ==
  IF S = {} THEN 0
  ELSE LET x == CHOOSE y \in S : TRUE IN f[x] + SumOver(S \ {x}, f)

Count(tr, op) == Cardinality({i \in DOMAIN tr : tr[i] = op})

\* how many times job j was marked running: names the uuid of its image
Run(tr, j) == Count(tr[j], "markRunning")
ImageId(tr, j) == <<j, Run(tr, j)>>
Orig(img) == <<"orig", img>>
Thumb(img) == <<"thumb", img>>
RefFile(img, k) == <<"ref", img, k>>

\* ---- StudioDatabase: queue_jobs ------------------------------------------
InsertQueueJob(t, id, req, prio, time) ==
  [t EXCEPT ![id] = [NoJob EXCEPT !.status = "pending",
                                  !.resolution = req.resolution,
                                  !.nrefs = req.nrefs,
                                  !.batchCount = req.batchCount,
                                  !.priority = prio,
                                  !.createdAt = time]]

\* the rows of the table
QueueJobRows(t) == {j \in JobIds : t[j].status # "none"}

\* variant: ORDER BY created_at ASC
ListOldestQueueJobs(t, limit) ==
  LET rows == QueueJobRows(t)
  IN  { S \in SUBSET rows :
          /\ Cardinality(S) = Min(limit, Cardinality(rows))
          /\ \A j \in S, k \in rows \ S : t[k].createdAt >= t[j].createdAt }

\* ORDER BY created_at DESC LIMIT ?: the ids of the rows returned; rows of the
\* same second at the cut may be either side of it
ListQueueJobs(t, limit) ==
  LET rows == QueueJobRows(t)
  IN  { S \in SUBSET rows :
          /\ Cardinality(S) = Min(limit, Cardinality(rows))
          /\ \A j \in S, k \in rows \ S : t[k].createdAt <= t[j].createdAt }

\* variant: running rows are not counted as open
ListPendingQueueJobs(t) == {j \in JobIds : t[j].status = "pending"}

ListOpenQueueJobs(t) == {j \in JobIds : t[j].status \in Open}

\* ORDER BY priority DESC, created_at ASC: a sorts strictly before b
Before(t, a, b) ==
  \/ t[a].priority > t[b].priority
  \/ t[a].priority = t[b].priority /\ t[a].createdAt < t[b].createdAt

\* variant: ORDER BY created_at ASC only
GetOldestPendingJob(t) ==
  LET pending == {j \in JobIds : t[j].status = "pending"}
  IN  {j \in pending : \A k \in pending : t[k].createdAt >= t[j].createdAt}

\* LIMIT 1 of that order; rows that tie on both keys may come back in any
\* order, so every first row of some admissible order is returned here
GetNextPendingJob(t) ==
  LET pending == {j \in JobIds : t[j].status = "pending"}
  IN  {j \in pending : \A k \in pending : ~Before(t, k, j)}

GetQueueJobById(t, id) == IF id \in JobIds /\ t[id].status # "none" THEN t[id] ELSE NoJob

\* variant: the status is not written
MarkQueueJobRunningKeepsStatus(t, id) == [t EXCEPT ![id].startedAt = TRUE]

MarkQueueJobRunning(t, id) ==
  [t EXCEPT ![id].status = "running", ![id].startedAt = TRUE]

\* variant: result_id is not written
MarkQueueJobCompletedNoResult(t, id, resultId) ==
  [t EXCEPT ![id].status = "completed", ![id].completedAt = TRUE]

MarkQueueJobCompleted(t, id, resultId) ==
  [t EXCEPT ![id].status = "completed", ![id].resultId = resultId,
            ![id].completedAt = TRUE]

MarkQueueJobFailed(t, id, error) ==
  [t EXCEPT ![id].status = "failed", ![id].error = error, ![id].completedAt = TRUE]

\* variant: the status is not written
MarkQueueJobCancelledKeepsStatus(t, id) ==
  IF t[id].status = "pending" THEN [t EXCEPT ![id].completedAt = TRUE] ELSE t

MarkQueueJobCancelled(t, id) ==
  IF t[id].status = "pending"
  THEN [t EXCEPT ![id].status = "cancelled", ![id].completedAt = TRUE]
  ELSE t

\* variant: failed rows are requeued too
RequeueFailedJobsToo(t) ==
  [j \in JobIds |->
     IF t[j].status \in {"running", "failed"}
     THEN [t[j] EXCEPT !.status = "pending", !.startedAt = FALSE,
                       !.completedAt = FALSE, !.error = "none"]
     ELSE t[j]]

\* variant: started_at is kept
RequeueKeepsStart(t) ==
  [j \in JobIds |->
     IF t[j].status = "running"
     THEN [t[j] EXCEPT !.status = "pending", !.completedAt = FALSE, !.error = "none"]
     ELSE t[j]]

RequeueRunningJobs(t) ==
  [j \in JobIds |->
     IF t[j].status = "running"
     THEN [t[j] EXCEPT !.status = "pending", !.startedAt = FALSE,
                       !.completedAt = FALSE, !.error = "none"]
     ELSE t[j]]

\* ---- StudioDatabase: usage_log -------------------------------------------
InsertUsageLog(log, cost) == Append(log, cost)

GetSessionCost(log, window) ==
  IF window = "month" THEN SumSeq(SubSeq(log, aged + 1, Len(log))) ELSE SumSeq(log)

\* ---- admission control ----------------------------------------------------
EstimateCost(resolution) == IF resolution = "4K" THEN Cost4K ELSE CostDefault

\* variant: no upper clamp
ClampConcurrencyNoCeiling(value) == Max(MinConcurrency, value)

\* Math.floor is the identity on the integers the settings handler lets through
ClampConcurrency(value) == Min(MaxConcurrency, Max(MinConcurrency, value))

GetReservedQueueCost(t, excludeQueueJobId) ==
  SumOver({j \in ListOpenQueueJobs(t) : j # excludeQueueJobId},
          [j \in JobIds |-> EstimateCost(t[j].resolution)])

NoError == [label |-> "none", spent |-> 0, reserved |-> 0, additional |-> 0, limit |-> 0]

\* currentSpent + reservedQueueCost + additionalCost is a sum of IEEE-754 doubles:
\* the operands are the doubles of 0.134 and 0.24 and their accumulated sums, the
\* limit is the double nearest to its three decimals (normalizeSpendLimit).  Sums
\* that differ in their thousandths compare as the thousandths do; a sum whose
\* thousandths equal those of the limit compares as its rounding falls.  RoundsUp
\* lists the operand triples <<spent, reserved, additional>>, among those that meet
\* one of the explored ceilings (0.508, 0.614, 0.938, 1.000, 1.390), whose double sum
\* lies one ulp above the double of the decimal sum: 0.402 + 0.536 evaluates to
\* 0.9380000000000001, and 0.938 to 0.938.  The other triples meeting a ceiling
\* evaluate to the double of the decimal sum or below it, in every order of
\* accumulation of the operands.  With 0.988 spent (three entries of 0.24 and two
\* of 0.134), 0.988 + 0.134 + 0.268 evaluates to 1.39 and 0.988 + 0.268 + 0.134 to
\* 1.3900000000000001.
RoundsUp ==
  { <<0, 402, 536>>, <<0, 536, 402>>, <<0, 670, 268>>, <<134, 268, 536>>,
    <<134, 402, 402>>, <<134, 536, 268>>, <<134, 670, 134>>, <<268, 134, 536>>,
    <<268, 268, 402>>, <<268, 402, 268>>, <<268, 536, 134>>, <<402, 0, 536>>,
    <<402, 134, 402>>, <<402, 268, 268>>, <<536, 0, 402>>, <<536, 134, 268>>,
    <<670, 0, 268>>, <<988, 0, 402>>, <<988, 268, 134>> }

\* const projected = currentSpent + reservedQueueCost + additionalCost
Projected(currentSpent, reservedQueueCost, additionalCost) ==
  [thousandths |-> currentSpent + reservedQueueCost + additionalCost,
   above |-> <<currentSpent, reservedQueueCost, additionalCost>> \in RoundsUp]

\* projected <= configuredLimit
WithinLimit(projected, configuredLimit) ==
  \/ projected.thousandths < configuredLimit
  \/ projected.thousandths = configuredLimit /\ ~projected.above

\* variant: a projection equal to the limit is rejected too
AssertSingleLimitStrict(label, configuredLimit, currentSpent, reservedQueueCost, additionalCost) ==
  IF configuredLimit = NoLimit THEN NoError
  ELSE IF currentSpent + reservedQueueCost + additionalCost < configuredLimit THEN NoError
  ELSE [label |-> label, spent |-> currentSpent, reserved |-> reservedQueueCost,
        additional |-> additionalCost, limit |-> configuredLimit]

AssertSingleLimit(label, configuredLimit, currentSpent, reservedQueueCost, additionalCost) ==
  IF configuredLimit = NoLimit THEN NoError
  ELSE IF WithinLimit(Projected(currentSpent, reservedQueueCost, additionalCost),
                      configuredLimit) THEN NoError
  ELSE [label |-> label, spent |-> currentSpent, reserved |-> reservedQueueCost,
        additional |-> additionalCost, limit |-> configuredLimit]

AssertSpendWithinLimits(t, log, estimatedAdditionalCost, excludeQueueJobId) ==
  IF estimatedAdditionalCost <= 0 THEN NoError
  ELSE LET reservedQueueCost == GetReservedQueueCost(t, excludeQueueJobId)
           month == AssertSingleLimit("Monatslimit", monthlyLimit,
                                      GetSessionCost(log, "month"),
                                      reservedQueueCost, estimatedAdditionalCost)
       IN  IF month # NoError THEN month
           ELSE AssertSingleLimit("Gesamtlimit", totalLimit,
                                  GetSessionCost(log, "all"),
                                  reservedQueueCost, estimatedAdditionalCost)

\* ---- the scheduler's synchronous runs ---------------------------------------
\* A run works on s = [jobs, usageLog, activeRuns, exec, trail, events, rejected];
\* rejected lists the runJob promises that rejected and whose handler
\* (kick's .catch) runs when the current synchronous run is over.
Current == [jobs |-> jobs, usageLog |-> usageLog, activeRuns |-> activeRuns,
        exec |-> exec, trail |-> trail, events |-> events, rejected |-> <<>>]

\* this.emit('job-failed', { jobId, message }) and this.emit('job-completed',
\* { jobId, imageId }); run tells the runs of a job apart
JobFailed(s, j, message) ==
  [event |-> "job-failed", run |-> Run(s.trail, j),
   payload |-> [jobId |-> j, message |-> message]]
JobCompleted(s, j, imageId) ==
  [event |-> "job-completed", run |-> Run(s.trail, j),
   payload |-> [jobId |-> j, imageId |-> imageId]]

\* variant: the finally does not decrement activeRuns
FailJobKeepsCount(s, j, message) ==
  LET done == [s EXCEPT !.exec[j] = Idle]
  IN  { [done EXCEPT !.jobs = MarkQueueJobFailed(@, j, message),
                     !.trail[j] = Append(@, "markFailed"),
                     !.events[j] = Append(@, JobFailed(s, j, message))],
        [done EXCEPT !.rejected = Append(@, j)] }

\* runJob's catch and the decrement of its finally.  markQueueJobFailed is a
\* storage write and may throw: the job row then stays as it is, the emit after
\* it is not reached and the promise of runJob is rejected.
FailJob(s, j, message) ==
  LET done == [s EXCEPT !.activeRuns = Max(0, @ - 1), !.exec[j] = Idle]
  IN  { [done EXCEPT !.jobs = MarkQueueJobFailed(@, j, message),
                     !.trail[j] = Append(@, "markFailed"),
                     !.events[j] = Append(@, JobFailed(s, j, message))],
        [done EXCEPT !.rejected = Append(@, j)] }

\* variant: the key is not read before the remote call
RunJobSyncNoKey(s, j) ==
  LET started == [s EXCEPT !.activeRuns = @ + 1,
                           !.jobs = MarkQueueJobRunning(@, j),
                           !.trail[j] = Append(@, "markRunning")]
      costEstimate == EstimateCost(started.jobs[j].resolution)
  IN  IF AssertSpendWithinLimits(started.jobs, started.usageLog, costEstimate, j) # NoError
      THEN FailJob(started, j, "limit")
      ELSE {[started EXCEPT !.exec[j] = [Idle EXCEPT !.pc = "generate", !.attempts = 1,
                                                     !.at = now]]}

\* runJob up to its first await
RunJobSync(s, j) ==
  LET started == [s EXCEPT !.activeRuns = @ + 1,
                           !.jobs = MarkQueueJobRunning(@, j),
                           !.trail[j] = Append(@, "markRunning")]
      costEstimate == EstimateCost(started.jobs[j].resolution)
  IN  IF ~apiKey THEN FailJob(started, j, "no api key")
      ELSE IF AssertSpendWithinLimits(started.jobs, started.usageLog, costEstimate, j) # NoError
      THEN FailJob(started, j, "limit")
      ELSE {[started EXCEPT !.exec[j] = [Idle EXCEPT !.pc = "generate", !.attempts = 1,
                                                     !.at = now]]}

\* variant: the loop runs while activeRuns <= concurrency
CanStartAtLimit(s, p, c) == ~p /\ s.activeRuns <= c

\* variant: kick does not read the paused flag
CanStartPaused(s, p, c) == s.activeRuns < c

CanStart(s, p, c) == ~p /\ s.activeRuns < c

RECURSIVE Kick(_, _, _)
Kick(s, p, c) ==
  IF ~CanStart(s, p, c) \/ GetNextPendingJob(s.jobs) = {} THEN {s}
  ELSE UNION { UNION { Kick(t, p, c) : t \in RunJobSync(s, j) }
               : j \in GetNextPendingJob(s.jobs) }

\* the rejection handler of kick: mark failed, decrement, kick again
RECURSIVE Settle(_, _, _)
Settle(s, p, c) ==
  IF s.rejected = <<>> THEN {s}
  ELSE LET j == Head(s.rejected)
           t == [s EXCEPT !.rejected = Tail(@),
                          !.jobs = MarkQueueJobFailed(@, j, "storage"),
                          !.trail[j] = Append(@, "markFailed"),
                          !.activeRuns = Max(0, @ - 1)]
       IN  UNION { Settle(u, p, c) : u \in Kick(t, p, c) }

\* kick(), then the handlers of the promises that rejected meanwhile
Dispatch(s, p, c) == UNION { Settle(t, p, c) : t \in Kick(s, p, c) }

\* runJob's catch + finally of a job that failed after an await
Fail(s, j, message, p, c) == UNION { Dispatch(t, p, c) : t \in FailJob(s, j, message) }

Commit(s) ==
  /\ jobs' = s.jobs
  /\ usageLog' = s.usageLog
  /\ activeRuns' = s.activeRuns
  /\ exec' = s.exec
  /\ trail' = s.trail
  /\ events' = s.events

config == <<monthlyLimit, totalLimit, apiKey>>
store == <<images, refRows, files, raised, seen>>
remote == <<now, calls>>
sched == <<jobs, usageLog, activeRuns, exec, trail, events>>

\* a scheduler is constructed and no call is about to return
Ready == phase = "up" /\ ret = NoRet

\* ---- Init --------------------------------------------------------------------
\* a fresh installation, its scheduler constructed (nothing to requeue or start)
Start(limits, keys) ==
  /\ jobs = [j \in JobIds |-> NoJob]
  /\ usageLog = <<>>
  /\ aged = 0
  /\ images = {}
  /\ refRows = {}
  /\ files = {}
  /\ activeRuns = 0
  /\ paused = FALSE
  /\ concurrency = ClampConcurrency(DefaultConcurrency)
  /\ exec = [j \in JobIds |-> Idle]
  /\ monthlyLimit = limits[1]
  /\ totalLimit = limits[2]
  /\ apiKey \in keys
  /\ phase = "up"
  /\ ret = NoRet
  /\ trail = [j \in JobIds |-> <<>>]
  /\ raised = {}
  /\ seen = {}
  /\ events = [j \in JobIds |-> <<>>]
  /\ crashes = 0
  /\ now = 0
  /\ calls = [j \in JobIds |-> <<>>]

\* ---- public calls of GenerationQueue -------------------------------------------
\* variant: no lower clamp
BatchCountNoFloor(requested) == Min(MAX_BATCH_COUNT, requested)

BatchCount(requested) == Min(MAX_BATCH_COUNT, Max(1, requested))

\* CURRENT_TIMESTAMP of a new row: the second of the newest row, or a later one
Stamp(t, later) ==
  LET rows == QueueJobRows(t)
      newest == CHOOSE m \in {t[j].createdAt : j \in rows} :
                  \A j \in rows : t[j].createdAt <= m
  IN  IF rows = {} THEN 0 ELSE IF later THEN newest + 1 ELSE newest

\* request.batchCount ?? 1
RequestedBatchCount(request) ==
  IF "batchCount" \in DOMAIN request THEN request.batchCount ELSE 1

\* { ...request, batchCount: 1 }
SingleRequest(request) ==
  [f \in DOMAIN request \cup {"batchCount"} |->
     IF f = "batchCount" THEN 1 ELSE request[f]]

\* the loop of enqueue: one pending row per unit, batchCount forced to 1
InsertBatch(s, ids, request, time) ==
  [s EXCEPT !.jobs = [j \in JobIds |->
                        IF j \in ids
                        THEN InsertQueueJob(@, j, SingleRequest(request), 0, time)[j]
                        ELSE @[j]],
            !.trail = [j \in JobIds |-> IF j \in ids THEN <<"insert">> ELSE @[j]]]

\* cap bounds the rows of the explored table, later says whether a second has passed
Enqueue(request, cap, later) ==
  LET batchCount == BatchCount(RequestedBatchCount(request))
      estimatedBatchCost == EstimateCost(request.resolution) * batchCount
      error == AssertSpendWithinLimits(jobs, usageLog, estimatedBatchCost, UnknownId)
      n == Cardinality(QueueJobRows(jobs))
      ids == (n + 1)..(n + batchCount)
      time == Stamp(jobs, later)
  IN  /\ Ready
      /\ IF error # NoError
         THEN /\ ret' = [op |-> "enqueue", request |-> request, error |-> error,
                         queuedJobIds |-> {}]
              /\ UNCHANGED sched
         ELSE /\ n + batchCount <= cap
              /\ time <= MaxTime
              /\ \E s \in Dispatch(InsertBatch(Current, ids, request, time), paused, concurrency) :
                   Commit(s)
              /\ ret' = [op |-> "enqueue", request |-> request, error |-> NoError,
                         queuedJobIds |-> ids]
      /\ UNCHANGED <<remote, config, store, aged, paused, concurrency, phase, crashes>>

Pause ==
  /\ Ready
  /\ paused' = TRUE
  /\ UNCHANGED <<remote, config, store, sched, aged, concurrency, phase, ret, crashes>>

Resume ==
  /\ Ready
  /\ paused' = FALSE
  /\ \E s \in Dispatch(Current, FALSE, concurrency) : Commit(s)
  /\ UNCHANGED <<remote, config, store, aged, concurrency, phase, ret, crashes>>

\* variant: cancel does not read the status
CancelUnchecked(jobId) ==
  /\ Ready
  /\ jobId \in QueueJobRows(jobs)
  /\ jobs' = [jobs EXCEPT ![jobId].status = "cancelled", ![jobId].completedAt = TRUE]
  /\ trail' = [trail EXCEPT ![jobId] = Append(@, "markCancelled")]
  /\ ret' = [op |-> "cancel", jobId |-> jobId, result |-> TRUE]
  /\ UNCHANGED <<remote, config, store, usageLog, activeRuns, exec, events, aged, paused,
                 concurrency, phase, crashes>>

Cancel(jobId) ==
  LET job == GetQueueJobById(jobs, jobId)
  IN  /\ Ready
      /\ IF job.status # "pending"
         THEN /\ ret' = [op |-> "cancel", jobId |-> jobId, result |-> FALSE]
              /\ UNCHANGED <<jobs, trail>>
         ELSE /\ jobs' = MarkQueueJobCancelled(jobs, jobId)
              /\ trail' = [trail EXCEPT ![jobId] =
                             IF jobs'[jobId] # jobs[jobId] THEN Append(@, "markCancelled") ELSE @]
              /\ ret' = [op |-> "cancel", jobId |-> jobId, result |-> TRUE]
      /\ UNCHANGED <<remote, config, store, usageLog, activeRuns, exec, events, aged, paused,
                     concurrency, phase, crashes>>

SetConcurrency(value) ==
  /\ Ready
  /\ concurrency' = ClampConcurrency(value)
  /\ \E s \in Dispatch(Current, paused, concurrency') : Commit(s)
  /\ ret' = [op |-> "setConcurrency", value |-> value,
             started |-> {j \in JobIds : Run(trail', j) > Run(trail, j)}]
  /\ UNCHANGED <<remote, config, store, aged, paused, phase, crashes>>

\* listJobs(limit): the rows as mapQueueJobRow hands them out (here their id, status
\* and error)
ListJobs(limit) ==
  /\ Ready
  /\ \E S \in ListQueueJobs(jobs, limit) :
       ret' = [op |-> "listJobs", limit |-> limit,
               jobs |-> {[id |-> j, status |-> jobs[j].status, error |-> jobs[j].error] : j \in S}]
  /\ UNCHANGED <<remote, config, store, sched, aged, paused, concurrency, phase, crashes>>

\* the caller has the result of its call
Return ==
  /\ ret # NoRet
  /\ ret' = NoRet
  /\ UNCHANGED <<remote, config, store, sched, aged, paused, concurrency, phase, crashes>>

\* ---- time -------------------------------------------------------------------------
\* the oldest usage entry of the month window leaves it (the window is read for the
\* monthly limit only)
AgeUsage ==
  /\ Ready
  /\ monthlyLimit # NoLimit
  /\ aged < Len(usageLog)
  /\ aged' = aged + 1
  /\ UNCHANGED <<remote, config, store, sched, paused, concurrency, phase, ret, crashes>>

\* ---- runJob after its awaits ----------------------------------------------------------
Img(j) == ImageId(trail, j)

\* a step of runJob that leaves the job suspended at pc
Suspend(j, pc, k, written, inserted) ==
  /\ exec' = [exec EXCEPT ![j] = [Idle EXCEPT !.pc = pc, !.k = k, !.written = written,
                                              !.inserted = inserted]]
  /\ UNCHANGED <<jobs, usageLog, activeRuns, trail, events>>

\* runJob lines 166-191 once persistGeneratedImage returned img: markQueueJobCompleted,
\* insertUsageLog (a storage write that may throw, into the catch), finally
Finish(j, img, usageOk) ==
  LET completed == [Current EXCEPT !.jobs = MarkQueueJobCompleted(@, j, img),
                                   !.trail[j] = Append(@, "markCompleted")]
      logged == [completed EXCEPT
                   !.usageLog = InsertUsageLog(@, EstimateCost(jobs[j].resolution)),
                   !.events[j] = Append(@, JobCompleted(Current, j, img)),
                   !.activeRuns = Max(0, @ - 1),
                   !.exec[j] = Idle]
  IN  IF usageOk THEN Dispatch(logged, paused, concurrency)
      ELSE Fail(completed, j, "storage", paused, concurrency)

\* variant: the image row is not deleted before the files are removed
PersistCatchKeepsRow(img, imgs, rows, inserted, written) ==
  LET rows1 == rows \ {<<img, i>> : i \in inserted}
  IN  IF written = {}
      THEN [pc |-> "rbFiles", images |-> imgs, refRows |-> {r \in rows1 : r[1] # img}]
      ELSE [pc |-> "rbRefs", images |-> imgs, refRows |-> rows1]

\* the catch of persistReferenceImages (delete the rows it inserted, then remove the
\* files it recorded as written) and, when no file removal is awaited, the catch of
\* persistGeneratedImage after it (delete the reference rows and the image row)
PersistCatch(img, imgs, rows, inserted, written) ==
  LET rows1 == rows \ {<<img, i>> : i \in inserted}
  IN  IF written = {}
      THEN [pc |-> "rbFiles", images |-> imgs \ {img},
            refRows |-> {r \in rows1 : r[1] # img}]
      ELSE [pc |-> "rbRefs", images |-> imgs, refRows |-> rows1]

\* geminiClient.generate returned (an image), threw, or returned a payload that
\* decodeBase64Payload rejects before anything is written
GenerateReturned(j, outcome) ==
  /\ Ready
  /\ exec[j].pc \in {"generate", "backoff"}
  /\ IF outcome = "image"
     THEN Suspend(j, "orig", 0, {}, {})
     ELSE \E s \in Fail(Current, j, IF outcome = "error" THEN "remote" ELSE "artifact",
                        paused, concurrency) : Commit(s)
  /\ UNCHANGED <<config, store, aged, paused, concurrency, phase, ret, crashes>>

\* the whole call of generate as one step, whatever its attempts were
GenerateDone(j, outcome) ==
  /\ exec[j].pc = "generate"
  /\ GenerateReturned(j, outcome)
  /\ UNCHANGED remote

\* ---- GeminiClient.generate, attempt by attempt ------------------------------------------
\* what the remote side does with one call: an HTTP response with a status and a
\* number of image parts, no response within the timeout, or a transport error
RemoteAnswers ==
  [kind : {"http"}, status : {200}, images : {0, 1}]
    \cup [kind : {"http"}, status : {400, 429, 500, 503}, images : {0}]
    \cup [kind : {"timeout", "network"}, status : {0}, images : {0}]

\* variant: every error status is retried
IsRetryableAnyStatus(status) == status >= 400

\* GeminiHttpError.isRetryable
IsRetryable(status) == status = 429 \/ status >= 500

\* generateOnce: a result, or the error it throws (http: a GeminiHttpError)
GenerateOnce(answer) ==
  IF answer.kind = "timeout" THEN [ok |-> FALSE, http |-> TRUE, status |-> 504]
  ELSE IF answer.kind = "network" THEN [ok |-> FALSE, http |-> FALSE, status |-> 0]
  ELSE IF answer.status \notin 200..299
  THEN [ok |-> FALSE, http |-> TRUE, status |-> answer.status]
  ELSE IF answer.images = 0 THEN [ok |-> FALSE, http |-> FALSE, status |-> 0]
  ELSE [ok |-> TRUE, http |-> FALSE, status |-> answer.status]

\* variant: the delay does not double
RetryDelayFlat(attempts) == RETRY_BASE_DELAY_MS

\* RETRY_BASE_DELAY_MS * 2 ** (attempts - 1)
RetryDelay(attempts) == RETRY_BASE_DELAY_MS * 2 ^ (attempts - 1)

\* variant: the loop runs while attempts <= MAX_RETRIES
GivesUpLate(attempts) == attempts > MAX_RETRIES

\* attempts >= MAX_RETRIES
GivesUp(attempts) == attempts >= MAX_RETRIES

\* the remote call of job j answers: generate returns, throws, or waits before
\* its next attempt
AttemptDone(j, answer) ==
  LET result == GenerateOnce(answer)
      attempts == exec[j].attempts
      then == IF result.ok THEN "returned"
              ELSE IF ~result.http \/ ~IsRetryable(result.status) \/ GivesUp(attempts)
              THEN "raised"
              ELSE "wait"
  IN  /\ exec[j].pc = "generate"
      /\ calls' = [calls EXCEPT ![j] = Append(@, [attempt |-> attempts,
                                                  answer |-> answer,
                                                  then |-> then])]
      /\ now' = now
      /\ IF then = "returned" THEN GenerateReturned(j, "image")
         ELSE IF then = "raised" THEN GenerateReturned(j, "error")
         ELSE /\ Ready
              /\ exec' = [exec EXCEPT ![j].pc = "backoff", ![j].at = now]
              /\ UNCHANGED <<config, store, jobs, usageLog, activeRuns, trail, events, aged,
                             paused, concurrency, phase, ret, crashes>>

\* the timer of wait(delayMs) fires, not before its delay: the loop condition,
\* then the next attempt or the throw of lastError after the loop
BackoffDone(j) ==
  /\ Ready
  /\ exec[j].pc = "backoff"
  /\ now >= exec[j].at + RetryDelay(exec[j].attempts)
  /\ IF exec[j].attempts < MAX_RETRIES
     THEN /\ exec' = [exec EXCEPT ![j].pc = "generate", ![j].attempts = @ + 1,
                                  ![j].at = now]
          /\ UNCHANGED <<config, store, jobs, usageLog, activeRuns, trail, events, aged,
                         paused, concurrency, phase, ret, crashes>>
     ELSE GenerateReturned(j, "error")
  /\ UNCHANGED remote

\* time passes (no further than the explored horizon and the timers set)
Tick ==
  /\ \/ now < MaxTicks * RETRY_BASE_DELAY_MS
     \/ \E j \in JobIds : /\ exec[j].pc = "backoff"
                           /\ now < exec[j].at + RetryDelay(exec[j].attempts)
  /\ now' = now + RETRY_BASE_DELAY_MS
  /\ UNCHANGED <<calls, config, store, sched, aged, paused, concurrency, phase, ret, crashes>>

\* fs.writeFile of the original: done, failed with nothing on disk, or failed with
\* a partial file left
OrigDone(j, outcome) ==
  /\ Ready
  /\ exec[j].pc = "orig"
  /\ files' = IF outcome = "failed" THEN files ELSE files \cup {Orig(Img(j))}
  /\ Suspend(j, IF outcome = "ok" THEN "thumb" ELSE "rbFiles", 0, {}, {})
  /\ UNCHANGED <<remote, config, images, refRows, raised, seen, aged, paused, concurrency, phase, ret,
                 crashes>>

\* the thumbnail write, then insertImage and persistReferenceImages up to its
\* first await
ThumbDone(j, outcome, decodeOk, usageOk) ==
  LET img == Img(j)
      caught == PersistCatch(img, images \cup {img}, refRows, {}, {})
  IN  /\ Ready
      /\ exec[j].pc = "thumb"
      /\ files' = IF outcome = "failed" THEN files ELSE files \cup {Thumb(img)}
      /\ CASE outcome # "ok" ->
                /\ Suspend(j, "rbFiles", 0, {}, {})
                /\ UNCHANGED <<images, refRows>>
           [] outcome = "ok" /\ jobs[j].nrefs = 0 ->
                /\ images' = images \cup {img}
                /\ \E s \in Finish(j, img, usageOk) : Commit(s)
                /\ UNCHANGED refRows
           [] outcome = "ok" /\ jobs[j].nrefs > 0 /\ decodeOk ->
                /\ images' = images \cup {img}
                /\ Suspend(j, "ref", 1, {}, {})
                /\ UNCHANGED refRows
           [] outcome = "ok" /\ jobs[j].nrefs > 0 /\ ~decodeOk ->
                /\ images' = caught.images
                /\ refRows' = caught.refRows
                /\ Suspend(j, caught.pc, 0, {}, {})
      /\ UNCHANGED <<remote, config, raised, seen, aged, paused, concurrency, phase, ret, crashes>>

\* fs.writeFile of reference k, then insertReferenceImage and the next round of the loop
RefDone(j, outcome, decodeOk, usageOk) ==
  LET img == Img(j)
      k == exec[j].k
      written == IF outcome \in {"ok", "insertFailed"} THEN exec[j].written \cup {k}
                 ELSE exec[j].written
      inserted == IF outcome = "ok" THEN exec[j].inserted \cup {k} ELSE exec[j].inserted
      rows == IF outcome = "ok" THEN refRows \cup {<<img, k>>} ELSE refRows
      caught == PersistCatch(img, images, rows, inserted, written)
  IN  /\ Ready
      /\ exec[j].pc = "ref"
      /\ files' = IF outcome = "failed" THEN files ELSE files \cup {RefFile(img, k)}
      /\ CASE outcome = "ok" /\ k = jobs[j].nrefs ->
                /\ refRows' = rows
                /\ \E s \in Finish(j, img, usageOk) : Commit(s)
                /\ UNCHANGED images
           [] outcome = "ok" /\ k < jobs[j].nrefs /\ decodeOk ->
                /\ refRows' = rows
                /\ Suspend(j, "ref", k + 1, written, inserted)
                /\ UNCHANGED images
           [] OTHER ->
                /\ images' = caught.images
                /\ refRows' = caught.refRows
                /\ Suspend(j, caught.pc, k, written, inserted)
      /\ UNCHANGED <<remote, config, raised, seen, aged, paused, concurrency, phase, ret, crashes>>

\* the reference files recorded as written are removed; the error goes on to the
\* catch of persistGeneratedImage
RbRefsDone(j) ==
  LET img == Img(j)
  IN  /\ Ready
      /\ exec[j].pc = "rbRefs"
      /\ files' = files \ {RefFile(img, i) : i \in exec[j].written}
      /\ refRows' = {r \in refRows : r[1] # img}
      /\ images' = images \ {img}
      /\ Suspend(j, "rbFiles", exec[j].k, exec[j].written, exec[j].inserted)
      /\ UNCHANGED <<remote, config, raised, seen, aged, paused, concurrency, phase, ret, crashes>>

\* original and thumbnail are removed, persistGeneratedImage re-raises, runJob's
\* catch marks the job failed
RbFilesDone(j) ==
  LET img == Img(j)
  IN  /\ Ready
      /\ exec[j].pc = "rbFiles"
      /\ files' = files \ {Orig(img), Thumb(img)}
      /\ raised' = raised \cup {img}
      /\ \E s \in Fail(Current, j, "artifact", paused, concurrency) : Commit(s)
      /\ UNCHANGED <<remote, config, images, refRows, seen, aged, paused, concurrency,
                     phase, ret, crashes>>

\* ---- GeminiClient.validateApiKey ----------------------------------------------------------
\* A key is a string of up to MaxKeyLen characters: a space, an ordinary character,
\* or a lone surrogate (which encodeURIComponent refuses).
KeyChars == {"space", "char", "surrogate"}
ApiKeys == UNION {[1..n -> KeyChars] : n \in 0..MaxKeyLen}

RECURSIVE TrimStart(_)
TrimStart(s) == IF s # <<>> /\ Head(s) = "space" THEN TrimStart(Tail(s)) ELSE s

RECURSIVE TrimEnd(_)
TrimEnd(s) ==
  IF s # <<>> /\ s[Len(s)] = "space" THEN TrimEnd(SubSeq(s, 1, Len(s) - 1)) ELSE s

\* String.prototype.trim
Trim(s) == TrimEnd(TrimStart(s))

Message(text, status) == [text |-> text, status |-> status]

\* what the models endpoint does with the probe: a response with a status and a body
\* (JSON with error.message, JSON without it, or not JSON), nothing within the
\* timeout, or a transport error
ProbeBodies == {"message", "empty message", "no message", "not json"}
ProbeAnswers ==
  [kind : {"http"}, status : {200}, body : {"no message"}]
    \cup [kind : {"http"}, status : {400, 403, 429, 500}, body : ProbeBodies]
    \cup [kind : {"timeout", "network"}, status : {0}, body : {"no message"}]

\* readErrorMessage: error.message of the JSON body if it is a string, else (also
\* when response.json() throws) the text with the status
ReadErrorMessage(response) ==
  CASE response.body = "message" -> Message("API key not valid. Please pass a valid API key.", 0)
    [] response.body = "empty message" -> Message("", 0)
    [] OTHER -> Message("Gemini API request failed with", response.status)

\* the try block of validateApiKey: what it returns, or the Error it throws
Probe(key, answer) ==
  IF \E i \in DOMAIN key : key[i] = "surrogate"
  THEN [threw |-> TRUE, valid |-> FALSE, message |-> Message("URI malformed", 0)]
  ELSE IF answer.kind = "timeout"
  THEN [threw |-> TRUE, valid |-> FALSE, message |-> Message("Request timed out.", 0)]
  ELSE IF answer.kind = "network"
  THEN [threw |-> TRUE, valid |-> FALSE, message |-> Message("fetch failed", 0)]
  ELSE IF answer.status \notin 200..299
  THEN [threw |-> FALSE, valid |-> FALSE, message |-> ReadErrorMessage(answer)]
  ELSE [threw |-> FALSE, valid |-> TRUE, message |-> Message("API-Schluessel ist gueltig.", 0)]

\* variant: no catch around the probe
Rethrown(outcome) == outcome

\* the catch of validateApiKey
Caught(outcome) ==
  IF outcome.threw THEN [threw |-> FALSE, valid |-> FALSE, message |-> outcome.message]
  ELSE outcome

ValidateApiKeyResult(key, answer) ==
  IF Trim(key) = <<>>
  THEN [threw |-> FALSE, valid |-> FALSE,
        message |-> Message("API-Schluessel darf nicht leer sein.", 0)]
  ELSE Caught(Probe(key, answer))

\* the promise of validateApiKey(key) settles
ValidateApiKey(key, answer) ==
  /\ Ready
  /\ ret' = [op |-> "validateApiKey", apiKey |-> key, answer |-> answer,
             result |-> ValidateApiKeyResult(key, answer)]
  /\ UNCHANGED <<remote, config, store, sched, aged, paused, concurrency, phase, crashes>>

\* ---- buildGeminiPayload ----------------------------------------------------------------
Absent == "absent"
ALLOWED_MODELS ==
  {"gemini-3.1-flash-image-preview", "gemini-3-pro-image-preview",
   "gemini-2.5-flash-image", "gemini-2.5-flash-image-preview"}
ALLOWED_RESOLUTIONS == {"512px", "1K", "2K", "4K"}

\* the requests parseGenerationRequestInput lets through, as far as the image
\* configuration and the tools of the payload read them
PayloadRequests ==
  [model : ALLOWED_MODELS, resolution : ALLOWED_RESOLUTIONS \cup {Absent},
   aspectRatio : {Absent, "1:1"}, useGoogleSearch : BOOLEAN]

NormalizeResolutionForModel(model, resolution) ==
  IF resolution = Absent THEN Absent
  ELSE IF model \in {"gemini-2.5-flash-image", "gemini-2.5-flash-image-preview"} THEN "1K"
  ELSE resolution

\* generationConfig (imageConfig and its keys only when they have a value) and tools
\* of the payload
BuildGeminiPayload(request) ==
  LET normalizedResolution == NormalizeResolutionForModel(request.model, request.resolution)
      keys == {k \in {"aspectRatio"} : request.aspectRatio # Absent}
                \cup {k \in {"imageSize"} : normalizedResolution # Absent}
      imageConfig == [k \in keys |-> IF k = "aspectRatio" THEN request.aspectRatio
                                     ELSE normalizedResolution]
  IN  [generationConfig |->
         [k \in {c \in {"imageConfig"} : keys # {}} |-> imageConfig],
       tools |-> IF request.useGoogleSearch THEN {"googleSearch"} ELSE {}]

\* the body generateOnce posts for a request
PostPayload(request) ==
  /\ Ready
  /\ ret' = [op |-> "buildGeminiPayload", request |-> request,
             payload |-> BuildGeminiPayload(request)]
  /\ UNCHANGED <<remote, config, store, sched, aged, paused, concurrency, phase, crashes>>

\* the composer: the model it treats as pro, and the resolutions it offers for a model
IsProImageModel(model) == model = "gemini-3-pro-image-preview"
ResolutionOptions(model) == IF IsProImageModel(model) THEN {"1K", "2K", "4K"} ELSE {"1K"}

\* ---- resolveReferenceImages ------------------------------------------------------------
MAX_REFERENCE_IMAGES == 14

\* Array.prototype.slice(0, n) for n >= 0
Slice(s, n) == SubSeq(s, 1, Min(n, Len(s)))

\* n references as parseReferenceImagePayload returns them, some labelled, some not
ExplicitReferences(n) ==
  [i \in 1..n |-> [id |-> <<"reference", i>>,
                   label |-> IF i % 2 = 0 THEN "style" ELSE Absent]]

\* the requests parseGenerationRequestInput lets through, as far as the references
\* read them: at most MAX_REFERENCE_IMAGES references, any or no project id
ReferenceRequests ==
  [referenceImages : {ExplicitReferences(n) : n \in 0..MAX_REFERENCE_IMAGES},
   projectId : {Absent, "", "p1", "p2"}]

\* the brand asset rows of project p1, newest first; the file of a row is readable,
\* outside the library root, or missing
AssetFiles == {"ok", "outside", "missing"}
AssetCounts == {0, 1, 2, MAX_REFERENCE_IMAGES, MaxAssets}
BrandAssets ==
  { [i \in 1..n |-> [id |-> <<"asset", i>>, file |-> IF i <= 2 THEN f[i] ELSE "ok"]] :
      n \in AssetCounts, f \in [1..2 -> AssetFiles] }

ListProjectBrandAssets(assets, projectId) == IF projectId = "p1" THEN assets ELSE <<>>

Loadable(asset) == asset.file = "ok"

\* variant: every asset of the project, whatever the limit
LoadEveryBrandReference(assets, projectId, limit) ==
  LET loaded == SelectSeq(ListProjectBrandAssets(assets, projectId), Loadable)
  IN  [i \in 1..Len(loaded) |-> [id |-> loaded[i].id, label |-> "style"]]

LoadProjectBrandReferences(assets, projectId, limit) ==
  IF limit <= 0 THEN <<>>
  ELSE LET listed == Slice(ListProjectBrandAssets(assets, projectId), limit)
           loaded == SelectSeq(listed, Loadable)
       IN  [i \in 1..Len(loaded) |-> [id |-> loaded[i].id, label |-> "style"]]

ResolveReferenceImages(request, assets) ==
  LET explicitReferences == Slice(request.referenceImages, MAX_REFERENCE_IMAGES)
      remainingSlots == Max(0, MAX_REFERENCE_IMAGES - Len(explicitReferences))
  IN  IF request.projectId \in {Absent, ""} THEN explicitReferences
      ELSE IF remainingSlots = 0 THEN explicitReferences
      ELSE explicitReferences
             \o LoadProjectBrandReferences(assets, request.projectId, remainingSlots)

\* the references runJob hands to the client for a request
ResolveReferences(request, assets) ==
  /\ Ready
  /\ ret' = [op |-> "resolveReferenceImages", request |-> request, assets |-> assets,
             references |-> ResolveReferenceImages(request, assets)]
  /\ UNCHANGED <<remote, config, store, sched, aged, paused, concurrency, phase, crashes>>

\* ---- resolveSystemPrompt ---------------------------------------------------------------
\* A text is a string of up to MaxPromptLen characters, spaces among them; Null
\* stands for undefined and null.
PromptChars == {"space", "a", "b"}
Null == <<"null">>
Texts == UNION {[1..n -> PromptChars] : n \in 0..MaxPromptLen}

\* text?.trim(), as far as its truth value and its content go
TrimOf(text) == IF text = Null THEN <<>> ELSE Trim(text)

\* the fixed label of the guidelines and the fixed strict-mode instruction
GuidelinesLabel == <<"Markenidentitaet und Brand-Richtlinien:", "newline">>
StrictFragment == <<"Strikter On-Brand-Modus">>

\* a project row as the projects handlers store it: texts trimmed, empty ones null
Projects ==
  [systemPrompt : {Null, <<"a">>, <<"b">>}, brandGuidelines : {Null, <<"b">>},
   brandStrictMode : BOOLEAN]

\* the project ids of a request: none, blank, the id of the project row (with and
\* without a space around it), the id of no row
ProjectIds == {Null, <<>>, <<"space">>, <<"a">>, <<"space", "a">>, <<"b">>}

PromptRequests == [systemPrompt : Texts \cup {Null}, projectId : ProjectIds]

\* the row of the id, if any
GetProjectById(project, projectId) == IF projectId = <<"a">> THEN {project} ELSE {}

\* fragments.join('\n\n')
RECURSIVE Join(_)
Join(fragments) ==
  IF fragments = <<>> THEN <<>>
  ELSE IF Len(fragments) = 1 THEN fragments[1]
  ELSE fragments[1] \o <<"newline", "newline">> \o Join(Tail(fragments))

\* variant: the project's prompt is pushed also when it equals the direct one
PushEveryProjectFragment(fragments, found, directPrompt) ==
  IF found = {} THEN fragments
  ELSE LET project == CHOOSE p \in found : TRUE
           projectPrompt == TrimOf(project.systemPrompt)
           guidelines == TrimOf(project.brandGuidelines)
           f1 == IF projectPrompt # <<>> THEN Append(fragments, projectPrompt)
                 ELSE fragments
           f2 == IF guidelines # <<>> THEN Append(f1, GuidelinesLabel \o guidelines) ELSE f1
       IN  IF project.brandStrictMode THEN Append(f2, StrictFragment) ELSE f2

PushProjectContextFragments(fragments, found, directPrompt) ==
  IF found = {} THEN fragments
  ELSE LET project == CHOOSE p \in found : TRUE
           projectPrompt == TrimOf(project.systemPrompt)
           guidelines == TrimOf(project.brandGuidelines)
           f1 == IF projectPrompt # <<>> /\ projectPrompt # directPrompt
                 THEN Append(fragments, projectPrompt)
                 ELSE fragments
           f2 == IF guidelines # <<>> THEN Append(f1, GuidelinesLabel \o guidelines) ELSE f1
       IN  IF project.brandStrictMode THEN Append(f2, StrictFragment) ELSE f2

\* the joined fragments, or Null (null) when there is none
ResolveSystemPrompt(request, project) ==
  LET direct == TrimOf(request.systemPrompt)
      projectId == TrimOf(request.projectId)
      found == IF projectId # <<>> THEN GetProjectById(project, projectId) ELSE {}
      fragments == PushProjectContextFragments(
                     IF direct # <<>> THEN <<direct>> ELSE <<>>, found, direct)
  IN  IF Len(fragments) > 0 THEN Join(fragments) ELSE Null

\* payload.systemInstruction of buildGeminiPayload: the trimmed text, when not empty
SystemInstruction(systemPrompt) ==
  IF TrimOf(systemPrompt) # <<>> THEN TrimOf(systemPrompt) ELSE Null

\* variant: the resolved prompt is assigned to job.request itself
RequestForGenerationInPlace(request, resolvedSystemPrompt) ==
  LET assigned == IF resolvedSystemPrompt # Null
                  THEN [request EXCEPT !.systemPrompt = resolvedSystemPrompt]
                  ELSE request
  IN  [job |-> assigned, generation |-> assigned]

\* runJob, lines 140-147: requestForGeneration is a new object with the fields of
\* job.request; the resolved prompt, when there is one, is assigned to the new
\* object.  job is job.request as these statements leave it.
RequestForGeneration(request, resolvedSystemPrompt) ==
  [job |-> request,
   generation |-> IF resolvedSystemPrompt # Null
                  THEN [request EXCEPT !.systemPrompt = resolvedSystemPrompt]
                  ELSE request]

\* runJob resolves the prompt of job.request (as parsed from the row) and hands the
\* request for generation to the client, which builds its payload from it
ResolvePrompt(request, project) ==
  LET resolved == RequestForGeneration(request, ResolveSystemPrompt(request, project))
  IN  /\ Ready
      /\ ret' = [op |-> "resolveSystemPrompt", request |-> request, project |-> project,
                 job |-> resolved.job, sent |-> resolved.generation,
                 systemInstruction |-> SystemInstruction(resolved.generation.systemPrompt)]
      /\ UNCHANGED <<remote, config, store, sched, aged, paused, concurrency, phase, crashes>>

\* ---- readers ------------------------------------------------------------------------------
\* a get or list query of the gallery between two steps of the jobs returns the
\* row of img
GetImageById(img) ==
  /\ Ready
  /\ img \in images
  /\ seen' = seen \cup {img}
  /\ UNCHANGED <<remote, config, images, refRows, files, raised, sched, aged, paused,
                 concurrency, phase, ret, crashes>>

\* ---- process restart ------------------------------------------------------------------
\* the process dies with jobs in flight; what lived in memory is gone
Crash ==
  /\ Ready
  /\ crashes < MaxCrashes
  /\ \E j \in JobIds : jobs[j].status = "running"
  /\ crashes' = crashes + 1
  /\ phase' = "down"
  /\ exec' = [j \in JobIds |-> Idle]
  /\ activeRuns' = 0
  /\ paused' = FALSE
  /\ UNCHANGED <<remote, config, store, jobs, usageLog, trail, events, aged, concurrency, ret>>

\* constructor, lines 33-34
Requeue ==
  /\ phase = "down"
  /\ phase' = "requeued"
  /\ concurrency' = ClampConcurrency(concurrency)
  /\ jobs' = RequeueRunningJobs(jobs)
  /\ trail' = [j \in JobIds |->
                 IF jobs'[j] # jobs[j] THEN Append(trail[j], "requeue") ELSE trail[j]]
  /\ UNCHANGED <<remote, config, store, usageLog, activeRuns, exec, events, aged, paused, ret,
                 crashes>>

\* constructor, line 35
BootKick ==
  /\ phase = "requeued"
  /\ phase' = "up"
  /\ \E s \in Dispatch(Current, paused, concurrency) : Commit(s)
  /\ UNCHANGED <<remote, config, store, aged, paused, concurrency, ret, crashes>>

\* ---- specifications --------------------------------------------------------------------
SchedRequests == [resolution : Resolutions, nrefs : {0}, batchCount : BatchInputs]
StoreRequests == [resolution : {"1K"}, nrefs : RefCounts, batchCount : {1}]
WriteOutcomes == {"ok", "failed", "partial"}
StoreOutcomes == {"ok", "failed", "partial", "insertFailed"}

Calls(requests, cap, seconds) ==
  \/ \E r \in requests, later \in seconds : Enqueue(r, cap, later)
  \/ \E v \in ConcurrencyInputs : SetConcurrency(v)
  \/ Return

Control ==
  \/ Pause
  \/ Resume
  \/ \E id \in JobIds \cup {UnknownId} : Cancel(id)

CoreStep(writes, stores) ==
  \E j \in JobIds :
    \/ \E o \in {"image", "error", "garbled"} : GenerateDone(j, o)
    \/ \E o \in writes : OrigDone(j, o)
    \/ \E o \in stores, d, u \in BOOLEAN : ThumbDone(j, o, d, u)
    \/ RbFilesDone(j)

RefStep ==
  \E j \in JobIds :
    \/ \E o \in StoreOutcomes, d, u \in BOOLEAN : RefDone(j, o, d, u)
    \/ RbRefsDone(j)

Restart == Crash \/ Requeue \/ BootKick

\* the scheduler: up to MaxJobs rows, requests without reference images
Init == Start(Limited, BOOLEAN)

Next ==
  \/ Calls(SchedRequests, MaxJobs, {FALSE})
  \/ Control
  \/ CoreStep({"ok", "failed"}, {"ok", "failed"})
  \/ AgeUsage

Spec == Init /\ [][Next]_vars

\* the artifact store: up to StoreJobs rows, every outcome of every write
StoreInit == Start(Unlimited, {TRUE})

StoreNext ==
  \/ Calls(StoreRequests, StoreJobs, {FALSE})
  \/ CoreStep(WriteOutcomes, StoreOutcomes)
  \/ RefStep
  \/ Restart

StoreSpec == StoreInit /\ [][StoreNext]_vars

\* the dispatch order: a table of pending rows as insertQueueJob accepts them
\* (priority is a column its caller supplies, created_at the second of the insert,
\* so later rows are not older), found by a scheduler under construction; how a
\* started job ends plays no part in the order, so every remote call fails
OrderRequests == [resolution : {"1K"}, nrefs : {0}, batchCount : {1}]

OrderRow(priority, time) ==
  InsertQueueJob([j \in JobIds |-> NoJob], 1, CHOOSE r \in OrderRequests : TRUE,
                 priority, time)[1]

OrderTables ==
  { t \in [JobIds -> {NoJob} \cup {OrderRow(p, c) : p \in Priorities, c \in 0..MaxTime}] :
      /\ \A j \in JobIds : t[j] = NoJob => \A k \in JobIds : k > j => t[k] = NoJob
      /\ \A j, k \in JobIds :
           j < k /\ t[j] # NoJob /\ t[k] # NoJob => t[j].createdAt <= t[k].createdAt
      /\ Cardinality({j \in JobIds : t[j] # NoJob}) \in (MaxJobs - 1)..MaxJobs }

OrderInit ==
  /\ jobs \in OrderTables
  /\ usageLog = <<>>
  /\ aged = 0
  /\ images = {}
  /\ refRows = {}
  /\ files = {}
  /\ activeRuns = 0
  /\ paused = FALSE
  /\ concurrency \in {ClampConcurrency(v) : v \in ConcurrencyInputs}
  /\ exec = [j \in JobIds |-> Idle]
  /\ monthlyLimit = NoLimit
  /\ totalLimit = NoLimit
  /\ apiKey = TRUE
  /\ phase = "requeued"
  /\ ret = NoRet
  /\ trail = [j \in JobIds |-> IF jobs[j] = NoJob THEN <<>> ELSE <<"insert">>]
  /\ raised = {}
  /\ seen = {}
  /\ events = [j \in JobIds |-> <<>>]
  /\ crashes = 0
  /\ now = 0
  /\ calls = [j \in JobIds |-> <<>>]

OrderNext ==
  \/ BootKick
  \/ \E r \in OrderRequests, later \in BOOLEAN : Enqueue(r, MaxJobs, later)
  \/ Return
  \/ \E v \in ConcurrencyInputs : SetConcurrency(v)
  \/ \E j \in JobIds : GenerateDone(j, "error")

OrderSpec == OrderInit /\ [][OrderNext]_vars

\* progress: every call returns to its caller, and as long as some remote call or
\* write is outstanding, one of them returns or fails
LiveRequests == [resolution : {"1K"}, nrefs : {0}, batchCount : BatchInputs]

LiveInit == Start(Unlimited, BOOLEAN)

LiveNext ==
  \/ Calls(LiveRequests, StoreJobs, {FALSE})
  \/ Control
  \/ CoreStep({"ok", "failed"}, {"ok", "failed"})

JobStep(j) ==
  \/ \E o \in {"image", "error", "garbled"} : GenerateDone(j, o)
  \/ \E o \in {"ok", "failed"} : OrigDone(j, o)
  \/ \E o \in {"ok", "failed"}, d, u \in BOOLEAN : ThumbDone(j, o, d, u)
  \/ RbFilesDone(j)

\* the queue may stay paused for ever
PauseSpec ==
  /\ LiveInit
  /\ [][LiveNext]_vars
  /\ WF_vars(Return)
  /\ SF_vars(\E j \in JobIds : JobStep(j))

\* the queue is resumed whenever it is paused
LiveSpec ==
  /\ LiveInit
  /\ [][LiveNext]_vars
  /\ WF_vars(Return)
  /\ SF_vars(\E j \in JobIds : JobStep(j))
  /\ SF_vars(Resume)

\* batches: requests with batchCount absent, below, inside and above the range
BatchRequests ==
  [resolution : {"1K"}, nrefs : {0}, batchCount : {0, 1, 2, 5}]
    \cup [resolution : {"1K"}, nrefs : {0}]

BatchInit == Start(Unlimited, {TRUE})

BatchNext ==
  \/ \E r \in BatchRequests : Enqueue(r, MaxIds, FALSE)
  \/ Return
  \/ Pause
  \/ \E j \in JobIds : GenerateDone(j, "error")

BatchSpec == BatchInit /\ [][BatchNext]_vars

\* the artifact store with readers of the images table
ReadInit == Start(Unlimited, {TRUE})

ReadNext ==
  \/ Calls(StoreRequests, StoreJobs, {FALSE})
  \/ CoreStep(WriteOutcomes, StoreOutcomes)
  \/ RefStep
  \/ \E j \in JobIds : GetImageById(Img(j))

ReadSpec == ReadInit /\ [][ReadNext]_vars

\* the remote client: jobs without reference images whose artifacts are stored
\* without failure, every answer of the remote side, a clock
RetryRequests == [resolution : {"1K"}, nrefs : {0}, batchCount : {1}]

RetryInit == Start(Unlimited, {TRUE})

RetryStep(j) ==
  \/ \E a \in RemoteAnswers : AttemptDone(j, a)
  \/ BackoffDone(j)
  \/ OrigDone(j, "ok")
  \/ ThumbDone(j, "ok", TRUE, TRUE)

RetryNext ==
  \/ \E r \in RetryRequests : Enqueue(r, RetryJobs, FALSE)
  \/ Return
  \/ \E j \in JobIds : RetryStep(j)
  \/ Tick

\* every call returns, every outstanding remote call is answered or times out,
\* every timer fires
RetrySpec ==
  /\ RetryInit
  /\ [][RetryNext]_vars
  /\ WF_vars(Return)
  /\ WF_vars(Tick)
  /\ SF_vars(\E j \in JobIds : RetryStep(j))

\* the concurrency limit: values below, inside and above its range, against a
\* table of up to MaxJobs rows whose remote calls fail
LimitInputs == {-1, 0, 1, 3, 8, 9}

LimitInit == Start(Unlimited, BOOLEAN)

LimitNext ==
  \/ \E r \in LiveRequests : Enqueue(r, MaxJobs, FALSE)
  \/ \E v \in LimitInputs : SetConcurrency(v)
  \/ Return
  \/ Pause
  \/ Resume
  \/ \E j \in JobIds : GenerateDone(j, "error")

LimitSpec == LimitInit /\ [][LimitNext]_vars

\* the job list: listJobs with the limit its callers pass and with a smaller one,
\* over tables of up to MaxJobs rows of every status
DefaultListLimit == 200
ListLimits == {2, DefaultListLimit}

ListInit == Start(Unlimited, {TRUE})

ListNext ==
  \/ \E r \in OrderRequests, later \in BOOLEAN : Enqueue(r, MaxJobs, later)
  \/ \E limit \in ListLimits : ListJobs(limit)
  \/ Return
  \/ \E id \in JobIds : Cancel(id)
  \/ \E v \in ConcurrencyInputs : SetConcurrency(v)
  \/ CoreStep({"ok", "failed"}, {"ok", "failed"})

ListSpec == ListInit /\ [][ListNext]_vars

\* the rollback of persistGeneratedImage: jobs with and without reference images,
\* every write and insert of the operation succeeding or failing cleanly
UndoRefs == 2
UndoRequests == [resolution : {"1K"}, nrefs : {0, UndoRefs}, batchCount : {1}]

UndoInit == Start(Unlimited, {TRUE})

UndoNext ==
  \/ \E r \in UndoRequests : Enqueue(r, StoreJobs, FALSE)
  \/ Return
  \/ \E j \in JobIds :
       \/ GenerateDone(j, "image")
       \/ \E o \in {"ok", "failed"} : OrigDone(j, o)
       \/ \E o \in {"ok", "failed"}, d \in BOOLEAN : ThumbDone(j, o, d, TRUE)
       \/ \E o \in {"ok", "failed", "insertFailed"}, d \in BOOLEAN : RefDone(j, o, d, TRUE)
       \/ RbRefsDone(j)
       \/ RbFilesDone(j)

UndoSpec == UndoInit /\ [][UndoNext]_vars

\* the key check of the settings dialog: every key, every answer of the endpoint
KeyInit == Start(Unlimited, BOOLEAN)

KeyNext ==
  \/ \E key \in ApiKeys, answer \in ProbeAnswers : ValidateApiKey(key, answer)
  \/ Return

KeySpec == KeyInit /\ [][KeyNext]_vars

\* the payload as a function of the request
PayloadInit == Start(Unlimited, BOOLEAN)

PayloadNext ==
  \/ \E request \in PayloadRequests : PostPayload(request)
  \/ Return

PayloadSpec == PayloadInit /\ [][PayloadNext]_vars

\* the references as a function of the request and the project's brand assets
ReferenceInit == Start(Unlimited, BOOLEAN)

ReferenceNext ==
  \/ \E request \in ReferenceRequests, assets \in BrandAssets :
       ResolveReferences(request, assets)
  \/ Return

ReferenceSpec == ReferenceInit /\ [][ReferenceNext]_vars

\* the system prompt as a function of the request and the project row
PromptInit == Start(Unlimited, BOOLEAN)

PromptNext ==
  \/ \E request \in PromptRequests, project \in Projects : ResolvePrompt(request, project)
  \/ Return

PromptSpec == PromptInit /\ [][PromptNext]_vars

\* the re-check at job start: a library whose usage log holds five entries of
\* earlier jobs (their completed rows are not among the rows explored: nothing in
\* admission or dispatch reads a completed row), a total ceiling equal to that
\* spend plus three jobs, and up to three further jobs
RecheckUsage == <<Cost4K, Cost4K, Cost4K, CostDefault, CostDefault>>
RecheckLimits == <<NoLimit, SumSeq(RecheckUsage) + 3 * CostDefault>>
RecheckRows == 3

RecheckInit ==
  /\ jobs = [j \in JobIds |-> NoJob]
  /\ usageLog = RecheckUsage
  /\ aged = 0
  /\ images = {}
  /\ refRows = {}
  /\ files = {}
  /\ activeRuns = 0
  /\ paused = FALSE
  /\ concurrency = ClampConcurrency(DefaultConcurrency)
  /\ exec = [j \in JobIds |-> Idle]
  /\ monthlyLimit = RecheckLimits[1]
  /\ totalLimit = RecheckLimits[2]
  /\ apiKey \in BOOLEAN
  /\ phase = "up"
  /\ ret = NoRet
  /\ trail = [j \in JobIds |-> <<>>]
  /\ raised = {}
  /\ seen = {}
  /\ events = [j \in JobIds |-> <<>>]
  /\ crashes = 0
  /\ now = 0
  /\ calls = [j \in JobIds |-> <<>>]

RecheckNext ==
  \/ \E r \in LiveRequests : Enqueue(r, RecheckRows, FALSE)
  \/ Return
  \/ Control
  \/ \E j \in JobIds :
       \/ \E o \in {"image", "error"} : GenerateDone(j, o)
       \/ OrigDone(j, "ok")
       \/ ThumbDone(j, "ok", TRUE, TRUE)

RecheckSpec == RecheckInit /\ [][RecheckNext]_vars

\* the requeue of the constructor over tables with rows of every status: jobs
\* enqueued in the same and in later seconds, cancelled, completed, failed, and
\* in flight when the process dies
RequeueNext ==
  \/ \E r \in OrderRequests, later \in BOOLEAN : Enqueue(r, MaxJobs, later)
  \/ Return
  \/ \E id \in JobIds : Cancel(id)
  \/ \E j \in JobIds :
       \/ \E o \in {"image", "error"} : GenerateDone(j, o)
       \/ OrigDone(j, "ok")
       \/ ThumbDone(j, "ok", TRUE, TRUE)
  \/ Restart

RequeueSpec == StoreInit /\ [][RequeueNext]_vars

\* the stored request under every write to its row: jobs of both resolutions,
\* enqueued in the same and in later seconds, started, cancelled, completed, failed,
\* requeued after a crash and started again; and under the resolution of a prompt
FrameRequests == [resolution : Resolutions, nrefs : {0}, batchCount : BatchInputs]
FramePrompts ==
  { [systemPrompt |-> <<"a">>, projectId |-> <<"a">>],
    [systemPrompt |-> Null, projectId |-> Null] }
FrameProject ==
  [systemPrompt |-> <<"b">>, brandGuidelines |-> <<"b">>, brandStrictMode |-> TRUE]

FrameNext ==
  \/ \E r \in FrameRequests, later \in BOOLEAN : Enqueue(r, MaxJobs, later)
  \/ Return
  \/ \E id \in JobIds : Cancel(id)
  \/ \E j \in JobIds :
       \/ \E o \in {"image", "error"} : GenerateDone(j, o)
       \/ OrigDone(j, "ok")
       \/ ThumbDone(j, "ok", TRUE, TRUE)
  \/ Restart
  \/ \E request \in FramePrompts : ResolvePrompt(request, FrameProject)

FrameSpec == StoreInit /\ [][FrameNext]_vars

\* admission as a function of what it reads: a paused scheduler with pending rows,
\* usage entries inside and outside the month window (0.80 stands for entries
\* recorded at other prices), ceilings set and unset, and an additional cost
AdmitUsage == {<<>>, <<134>>, <<134, 134>>, <<800>>}
AdmitLimits == {Unlimited, <<938, NoLimit>>, <<1000, NoLimit>>, <<NoLimit, 938>>, <<1000, 938>>}
AdditionalCosts ==
  {50, 100} \cup {EstimateCost(r) * n : r \in Resolutions, n \in 1..MAX_BATCH_COUNT}
AdmitRequests == [resolution : Resolutions, nrefs : {0}, batchCount : {1, MAX_BATCH_COUNT}]

AdmitTables ==
  { t \in [JobIds -> {NoJob} \cup
                     {InsertQueueJob([j \in JobIds |-> NoJob], 1,
                                     [resolution |-> r, nrefs |-> 0, batchCount |-> 1],
                                     0, 0)[1] : r \in Resolutions}] :
      \A j \in JobIds : t[j] = NoJob => \A k \in JobIds : k > j => t[k] = NoJob }

AdmitInit ==
  /\ jobs \in AdmitTables
  /\ usageLog \in AdmitUsage
  /\ aged \in 0..Len(usageLog)
  /\ images = {}
  /\ refRows = {}
  /\ files = {}
  /\ activeRuns = 0
  /\ paused = TRUE
  /\ concurrency = ClampConcurrency(DefaultConcurrency)
  /\ exec = [j \in JobIds |-> Idle]
  /\ \E limits \in AdmitLimits : monthlyLimit = limits[1] /\ totalLimit = limits[2]
  /\ apiKey = TRUE
  /\ phase = "up"
  /\ ret = NoRet
  /\ trail = [j \in JobIds |-> IF jobs[j] = NoJob THEN <<>> ELSE <<"insert">>]
  /\ raised = {}
  /\ seen = {}
  /\ events = [j \in JobIds |-> <<>>]
  /\ crashes = 0
  /\ now = 0
  /\ calls = [j \in JobIds |-> <<>>]

\* assertSpendWithinLimits(estimatedAdditionalCost, { excludeQueueJobId })
AssertSpend(estimatedAdditionalCost, excludeQueueJobId) ==
  /\ Ready
  /\ ret' = [op |-> "assertSpendWithinLimits",
             additional |-> estimatedAdditionalCost,
             exclude |-> excludeQueueJobId,
             error |-> AssertSpendWithinLimits(jobs, usageLog, estimatedAdditionalCost,
                                               excludeQueueJobId)]
  /\ UNCHANGED <<remote, config, store, sched, aged, paused, concurrency, phase, crashes>>

AdmitNext ==
  \/ \E c \in AdditionalCosts, x \in JobIds \cup {UnknownId} : AssertSpend(c, x)
  \/ \E r \in AdmitRequests : Enqueue(r, MaxIds, FALSE)
  \/ Return

AdmitSpec == AdmitInit /\ [][AdmitNext]_vars

\* ---- properties ---------------------------------------------------------------------------
RunningJobs == {j \in JobIds : jobs[j].status = "running"}
PendingJobs == {j \in JobIds : jobs[j].status = "pending"}

\* job j went from pending to running in this step
Started(j) == Run(trail', j) > Run(trail, j)

\* the estimated cost of the open rows, and the confirmed spend of both windows
OpenCost ==
  SumOver({j \in JobIds : jobs[j].status \in {"pending", "running"}},
          [j \in JobIds |-> IF jobs[j].resolution = "4K" THEN Cost4K ELSE CostDefault])
MonthSpend == SumSeq(SubSeq(usageLog, aged + 1, Len(usageLog)))
AllSpend == SumSeq(usageLog)

ForwardWrites ==
  { <<"insert", "markRunning">>, <<"insert", "markCancelled">>,
    <<"markRunning", "markCompleted">>, <<"markRunning", "markFailed">>,
    <<"markRunning", "requeue">>, <<"requeue", "markRunning">>,
    <<"requeue", "markCancelled">> }

StatusMovesForward ==
  \A j \in JobIds :
    \A i \in 1..(Len(trail[j]) - 1) : <<trail[j][i], trail[j][i + 1]>> \in ForwardWrites

\* C3: with a ceiling set, the confirmed spend of its window plus the estimated
\* cost of all open jobs never exceeds it.
SpendWithinCeilings ==
  /\ monthlyLimit # NoLimit => MonthSpend + OpenCost <= monthlyLimit
  /\ totalLimit # NoLimit => AllSpend + OpenCost <= totalLimit

\* confirmed spend and open jobs, one of them in flight, fill the monthly ceiling
CeilingFilled ==
  /\ monthlyLimit # NoLimit
  /\ usageLog # <<>>
  /\ RunningJobs # {}
  /\ PendingJobs # {}
  /\ MonthSpend + OpenCost = monthlyLimit

\* C4: once persistGeneratedImage has re-raised the error of an image, no image
\* row, no reference row and no file of that image remains.
NothingLeftBehind ==
  \A img \in raised :
    /\ img \notin images
    /\ \A r \in refRows : r[1] # img
    /\ \A f \in files : f[2] # img

RequeueClears ==
  [][/\ phase = "down" /\ phase' = "requeued" =>
          /\ \A j \in JobIds :
               jobs[j].status = "running" =>
                 /\ jobs'[j].status = "pending"
                 /\ ~jobs'[j].startedAt
                 /\ ~jobs'[j].completedAt
                 /\ jobs'[j].error = "none"
          /\ \A j \in JobIds : ~Started(j)
     /\ phase' = "requeued" => \A j \in JobIds : jobs'[j].status # "running"
     /\ phase' = "up" =>
          \A j \in JobIds : jobs'[j].status = "running" => exec'[j].pc # "idle"]_vars

\* two jobs were running when the process died and are pending again
BothRequeued ==
  /\ phase = "requeued"
  /\ Cardinality({j \in PendingJobs :
                    trail[j] # <<>> /\ trail[j][Len(trail[j])] = "requeue"}) = 2

\* C7: cancel returns true and sets the status to cancelled iff the job exists and
\* is pending; otherwise it returns false and changes no row; a running job's
\* execution is untouched either way.
CancelOnlyPending ==
  [][ret = NoRet /\ ret'.op = "cancel" =>
       LET id == ret'.jobId
           found == id \in JobIds /\ jobs[id].status = "pending"
       IN  /\ ret'.result <=> found
           /\ found => jobs'[id].status = "cancelled"
           /\ ~found => jobs' = jobs
           /\ \A k \in JobIds \ {id} : jobs'[k] = jobs[k]
           /\ exec' = exec
           /\ activeRuns' = activeRuns]_vars

\* cancel was called on a running job and returned false
CancelTooLate ==
  /\ ret.op = "cancel"
  /\ ret.jobId \in JobIds
  /\ ~ret.result
  /\ jobs[ret.jobId].status = "running"

ExampleTable ==
  /\ 3 \in JobIds
  /\ jobs[1].status # "none" /\ jobs[1].priority = 5 /\ jobs[1].createdAt = 0
  /\ jobs[2].status # "none" /\ jobs[2].priority = 0 /\ jobs[2].createdAt = 1
  /\ jobs[3].status # "none" /\ jobs[3].priority = 5 /\ jobs[3].createdAt = 2

DispatchInOrder ==
  [][/\ \A j, k \in JobIds :
          Started(j) /\ jobs'[k].status = "pending" =>
            /\ jobs'[k].priority <= jobs'[j].priority
            /\ jobs'[k].priority = jobs'[j].priority =>
                 jobs'[k].createdAt >= jobs'[j].createdAt
     /\ ExampleTable' =>
          /\ Run(trail', 2) > 0 => Run(trail', 3) > 0
          /\ Run(trail', 3) > 0 => Run(trail', 1) > 0]_vars

\* the example table at concurrency 1: C and B are done, A is running
ExampleOrder ==
  /\ ExampleTable
  /\ concurrency = 1
  /\ jobs[1].status \in Terminal
  /\ jobs[3].status \in Terminal
  /\ jobs[2].status = "running"

\* C10: enqueue is rejected exactly when a set ceiling is exceeded by spend + reserved
\* + batch cost; the error names that ceiling and the three amounts, no row is
\* inserted, nothing is dispatched; an admitted batch inserts all its rows.
AdmissionAllOrNothing ==
  [][ret = NoRet /\ ret'.op = "enqueue" =>
       LET n == Min(MAX_BATCH_COUNT, Max(1, ret'.request.batchCount))
           add == n * (IF ret'.request.resolution = "4K" THEN Cost4K ELSE CostDefault)
           overMonth == monthlyLimit # NoLimit /\ MonthSpend + OpenCost + add > monthlyLimit
           overTotal == totalLimit # NoLimit /\ AllSpend + OpenCost + add > totalLimit
           new == {j \in JobIds : jobs[j].status = "none" /\ jobs'[j].status # "none"}
       IN  IF overMonth \/ overTotal
           THEN /\ ret'.error = [label |-> IF overMonth THEN "Monatslimit" ELSE "Gesamtlimit",
                                 spent |-> IF overMonth THEN MonthSpend ELSE AllSpend,
                                 reserved |-> OpenCost,
                                 additional |-> add,
                                 limit |-> IF overMonth THEN monthlyLimit ELSE totalLimit]
                /\ ret'.queuedJobIds = {}
                /\ jobs' = jobs
                /\ \A j \in JobIds : ~Started(j)
                /\ activeRuns' = activeRuns
           ELSE /\ ret'.error = NoError
                /\ ret'.queuedJobIds = new
                /\ Cardinality(new) = n
                /\ \A j \in new : jobs'[j].batchCount = 1]_vars

\* a batch of two was turned away by the total ceiling
BatchTurnedAway ==
  /\ ret.op = "enqueue"
  /\ ret.error # NoError
  /\ ret.error.label = "Gesamtlimit"
  /\ ret.request.batchCount = 2
  /\ PendingJobs # {}

\* C11: an admitted enqueue with batchCount N inserts exactly min(4, max(1, N)) rows
\* (1 when batchCount is absent), each inserted pending under a new id with the
\* fields of the request and batchCount 1, and returns exactly these ids.
BatchInserted ==
  [][ret = NoRet /\ ret'.op = "enqueue" /\ ret'.error = NoError =>
       LET request == ret'.request
           N == IF "batchCount" \in DOMAIN request THEN request.batchCount ELSE 1
           n == IF N > 4 THEN 4 ELSE IF N < 1 THEN 1 ELSE N
           new == {j \in JobIds : jobs[j].status = "none" /\ jobs'[j].status # "none"}
       IN  /\ Cardinality(new) = n
           /\ ret'.queuedJobIds = new
           /\ \A j \in new :
                /\ trail'[j][1] = "insert"
                /\ jobs'[j].status = "pending" \/ Started(j)
                /\ paused => jobs'[j].status = "pending"
                /\ jobs'[j].resolution = request.resolution
                /\ jobs'[j].nrefs = request.nrefs
                /\ jobs'[j].batchCount = 1
           /\ \A j \in JobIds \ new :
                jobs[j].status # "none" => jobs'[j].status # "none"]_vars

\* a batch of 5 was admitted as 4 rows
BatchClamped ==
  /\ ret.op = "enqueue"
  /\ "batchCount" \in DOMAIN ret.request
  /\ ret.request.batchCount = 5
  /\ Cardinality(ret.queuedJobIds) = 4

\* C12: admission is denied exactly when, for a ceiling that is set, the confirmed
\* spend of its window plus the estimated cost of the other open jobs plus the cost
\* to be added exceeds the ceiling; a sum equal to or below every set ceiling is
\* admitted, and an unset ceiling never denies.
AdmissionFollowsCeilings ==
  [][ret = NoRet /\ ret'.op \in {"assertSpendWithinLimits", "enqueue"} =>
       LET exclude == IF ret'.op = "enqueue" THEN UnknownId ELSE ret'.exclude
           add == IF ret'.op = "enqueue"
                  THEN Min(4, Max(1, ret'.request.batchCount))
                         * (IF ret'.request.resolution = "4K" THEN Cost4K ELSE CostDefault)
                  ELSE ret'.additional
           others == {j \in JobIds : jobs[j].status \in Open /\ j # exclude}
           reserved == SumOver(others, [j \in JobIds |->
                                         IF jobs[j].resolution = "4K" THEN Cost4K
                                         ELSE CostDefault])
           overMonth == monthlyLimit # NoLimit /\ MonthSpend + reserved + add > monthlyLimit
           overTotal == totalLimit # NoLimit /\ AllSpend + reserved + add > totalLimit
       IN  (ret'.error # NoError) <=> (overMonth \/ overTotal)]_vars

\* C13: the first remote call of generate() is issued in the step that starts the
\* job; attempt 2 is issued no earlier than 800 ms after attempt 1 failed and attempt
\* 3 no earlier than 1600 ms after attempt 2 failed; a call answered 503, 503 and
\* then 200 with an image returns from its third attempt (attempts = 3).
BackoffBetweenAttempts ==
  [][\A j \in JobIds :
       /\ Started(j) /\ exec'[j].pc = "generate" =>
            exec'[j].attempts = 1 /\ exec'[j].at = now'
       /\ exec[j].pc = "generate" /\ exec'[j].pc = "backoff" => exec'[j].at = now
       /\ exec'[j].attempts > exec[j].attempts /\ exec[j].attempts >= 1 =>
            /\ exec[j].pc = "backoff"
            /\ exec'[j].attempts = exec[j].attempts + 1
            /\ exec[j].attempts = 1 => now' >= exec[j].at + 800
            /\ exec[j].attempts = 2 => now' >= exec[j].at + 1600
       /\ /\ Len(calls'[j]) = 3
          /\ Len(calls[j]) = 2
          /\ \A i \in 1..2 : calls'[j][i].answer = [kind |-> "http", status |-> 503, images |-> 0]
          /\ calls'[j][3].answer = [kind |-> "http", status |-> 200, images |-> 1]
          => /\ calls'[j][3].then = "returned"
             /\ calls'[j][3].attempt = 3
             /\ exec[j].attempts = 3
             /\ exec'[j].pc = "orig"]_vars

\* 503, 503, then an image: the call returned from its third attempt
ThirdAttemptSucceeded ==
  \E j \in JobIds :
    /\ Len(calls[j]) = 3
    /\ \A i \in 1..2 : calls[j][i].answer.status = 503 /\ calls[j][i].then = "wait"
    /\ calls[j][3].answer = [kind |-> "http", status |-> 200, images |-> 1]
    /\ calls[j][3].then = "returned"
    /\ now >= 2400
    /\ jobs[j].status = "running"

\* C14: after a failed attempt generate() makes a further one exactly when the
\* failure is HTTP 429, a status >= 500 or a timeout and fewer than 3 attempts were
\* made; any other failure (another 4xx, a response without image parts, a transport
\* error) fails the job in the step it occurs, without a wait and without a retry.
RetryOnlyTransient ==
  [][\A j \in JobIds :
       calls'[j] # calls[j] =>
         LET e == calls'[j][Len(calls'[j])]
             a == e.answer
             success == a.kind = "http" /\ a.status = 200 /\ a.images > 0
             transient == \/ a.kind = "timeout"
                          \/ a.kind = "http" /\ (a.status = 429 \/ a.status >= 500)
         IN  /\ e.attempt = Len(calls'[j])
             /\ exec'[j].pc = "backoff" <=> ~success /\ transient /\ e.attempt < 3
             /\ ~success /\ ~(transient /\ e.attempt < 3) =>
                  /\ jobs'[j].status = "failed"
                  /\ exec'[j].pc = "idle"
                  /\ now' = now]_vars

\* a response without image parts failed the job after a single call
ZeroImagesNotRetried ==
  \E j \in JobIds :
    /\ Len(calls[j]) = 1
    /\ calls[j][1].answer = [kind |-> "http", status |-> 200, images |-> 0]
    /\ calls[j][1].then = "raised"
    /\ jobs[j].status = "failed"

\* C15: whatever the remote side answers, generate() makes at most 3 remote calls
\* and ends: it returns on its first successful attempt, and a third failed attempt
\* raises in the step it fails, without a wait, and the job is failed.
GenerateTerminates ==
  /\ [](\A j \in JobIds : Len(calls[j]) <= 3)
  /\ \A j \in JobIds :
       (exec[j].pc \in {"generate", "backoff"}) ~> (exec[j].pc \notin {"generate", "backoff"})
  /\ [][\A j \in JobIds :
          calls'[j] # calls[j] =>
            LET e == calls'[j][Len(calls'[j])]
                success == e.answer.kind = "http" /\ e.answer.status = 200
                             /\ e.answer.images > 0
            IN  /\ success => exec'[j].pc = "orig" /\ jobs'[j].status = "running"
                /\ ~success /\ e.attempt = 3 =>
                     /\ jobs'[j].status = "failed"
                     /\ exec'[j].pc = "idle"
                     /\ now' = now]_vars

\* three transient failures: the job is failed with the remote error
RetriesExhausted ==
  \E j \in JobIds :
    /\ Len(calls[j]) = 3
    /\ \A i \in 1..3 : calls[j][i].answer.kind = "timeout"
    /\ calls[j][3].then = "raised"
    /\ jobs[j].status = "failed"
    /\ jobs[j].error = "remote"
    /\ activeRuns = 0

\* C16: a job that failed has an error message on its row, and no image row, no
\* reference row and no file of its executions remains.
FailedJobLeavesNothing ==
  \A j \in JobIds :
    jobs[j].status = "failed" =>
      /\ jobs[j].error # "none"
      /\ \A img \in images : img[1] # j
      /\ \A r \in refRows : r[1][1] # j
      /\ \A f \in files : f[2][1] # j

\* C17: a job is marked completed only in the step in which persistGeneratedImage
\* returned the id of its image; every completed job has a resultId that names an
\* existing image row, and an image row is deleted only by the rollback of the
\* call that inserted it.
CompletedHasImage ==
  /\ [](\A j \in JobIds :
         jobs[j].status = "completed" =>
           jobs[j].resultId # NoImage /\ jobs[j].resultId \in images)
  /\ [][\A j \in JobIds :
          /\ Count(trail'[j], "markCompleted") > Count(trail[j], "markCompleted") =>
               /\ exec[j].pc \in {"thumb", "ref"}
               /\ Img(j) \in images'
               /\ jobs[j].nrefs > 0 => exec[j].pc = "ref" /\ exec[j].k = jobs[j].nrefs
               /\ jobs'[j].status = "completed" => jobs'[j].resultId = Img(j)
          /\ \A img \in images \ images' :
               /\ img[1] = j => img = Img(j) /\ exec[j].pc \in {"ref", "rbRefs"}
               /\ img[1] = j => jobs[j].status = "running"]_vars

\* a job with a reference image completed; its row names its image after a restart
CompletedAcrossRestart ==
  \E j \in JobIds :
    /\ jobs[j].status = "completed"
    /\ jobs[j].nrefs > 0
    /\ jobs[j].resultId \in images
    /\ crashes > 0
    /\ phase = "up"

\* C18: between the steps of the jobs the usage log holds exactly one entry per job
\* whose image was persisted, with the cost estimate of that job: an image in the
\* store is counted in the confirmed spend and a job without an image is not charged.
SpendMatchesImages ==
  LET charged == {j \in JobIds : \E img \in images : img[1] = j}
  IN  /\ Len(usageLog) = Cardinality(images)
      /\ SumSeq(usageLog) = SumOver(charged, [j \in JobIds |->
                                                IF jobs[j].resolution = "4K" THEN Cost4K
                                                ELSE CostDefault])

\* C19: no list or get query ever returns the image row of a persistGeneratedImage
\* call that fails: a row is visible only for a call that succeeds as a whole.
FailedCallNeverSeen == raised \cap seen = {}

\* C20: every image row has its original and its thumbnail on disk: the row is
\* inserted in the step in which the thumbnail write succeeded, after the original
\* was written, and a file of an image is removed only when its row is gone.
VisibleRowHasFiles ==
  /\ [](\A img \in images : Orig(img) \in files /\ Thumb(img) \in files)
  /\ [][\A j \in JobIds :
          /\ Img(j) \in images' \ images =>
               /\ exec[j].pc = "thumb"
               /\ Orig(Img(j)) \in files
               /\ Thumb(Img(j)) \in files'
          /\ (files \ files') \cap {Orig(Img(j)), Thumb(Img(j))} # {} =>
               Img(j) \notin images /\ exec[j].pc = "rbFiles"]_vars

\* a row is visible while its call waits for a reference write, and a file of an
\* earlier call that was rolled back is gone
RowVisibleDuringPersist ==
  \E j \in JobIds :
    /\ exec[j].pc = "ref"
    /\ Img(j) \in images
    /\ {Orig(Img(j)), Thumb(Img(j))} \subseteq files
    /\ raised # {}

\* C21: between operations, an unpaused scheduler with a pending job has no free
\* slot; and every end of a job's run (success, failure or thrown exception) frees
\* exactly one slot: over every step of a constructed scheduler the in-flight count
\* changes by the runs started minus the runs ended.
RunsStarted == Cardinality({j \in JobIds : Started(j)})
RunsEnded ==
  Cardinality({j \in JobIds : exec[j].pc # "idle" /\ exec'[j].pc = "idle"})
    + Cardinality({j \in JobIds : Started(j) /\ exec'[j].pc = "idle"})

NoFreeSlotWhilePending ==
  Ready /\ ~paused /\ PendingJobs # {} => activeRuns >= concurrency

OneSlotPerCompletion ==
  phase = "up" /\ phase' = "up" => activeRuns' = activeRuns + RunsStarted - RunsEnded

SlotsRefilled == []NoFreeSlotWhilePending /\ [][OneSlotPerCompletion]_vars

\* C22: setConcurrency(n) leaves the limit at min(8, max(1, n)), so the limit is
\* always within 1..8; called on an unpaused queue with the in-flight count below
\* the new limit it starts pending jobs until the limit is reached or none is
\* pending; paused or without a free slot it starts nothing.
ConcurrencyClamped ==
  /\ [](concurrency \in 1..8)
  /\ [][ret = NoRet /\ ret'.op = "setConcurrency" =>
          LET n == ret'.value
              limit == IF n < 1 THEN 1 ELSE IF n > 8 THEN 8 ELSE n
          IN  /\ concurrency' = limit
              /\ \A j \in ret'.started : jobs[j].status = "pending"
              /\ IF ~paused /\ activeRuns < limit
                 THEN activeRuns' >= limit \/ PendingJobs' = {}
                 ELSE ret'.started = {} /\ jobs' = jobs /\ activeRuns' = activeRuns]_vars

\* setConcurrency(9) has set the limit to 8 and started the two jobs that were
\* waiting behind a limit of 1
LimitRaised ==
  /\ ret.op = "setConcurrency"
  /\ ret.value = 9
  /\ concurrency = 8
  /\ Cardinality(ret.started) = 2
  /\ ret.started \subseteq RunningJobs
  /\ activeRuns = 3

ImagesOf(j) == {img \in images : img[1] = j}

OneImagePerJob == \A j \in JobIds : Cardinality(ImagesOf(j)) <= 1

\* C25 as stated: no operation deletes a job row, and listJobs returns every job
\* ever enqueued, whatever its status, a failed one with its error message.
RowsKept == \A j \in JobIds : jobs[j].status # "none" => jobs'[j].status # "none"

EveryJobListed ==
  /\ [][RowsKept]_vars
  /\ [](ret.op = "listJobs" =>
          \A j \in JobIds :
            jobs[j].status # "none" =>
              [id |-> j, status |-> jobs[j].status, error |-> jobs[j].error] \in ret.jobs)

\* C25, amended: no operation deletes a job row; listJobs(limit) returns
\* min(limit, rows in the table) rows, each with its present status and error (a
\* failed one with a message), and no row left out was created later than a row
\* returned.
NewestJobsListed ==
  /\ [][RowsKept]_vars
  /\ [][ret = NoRet /\ ret'.op = "listJobs" =>
          LET rows == {j \in JobIds : jobs[j].status # "none"}
              got == {r.id : r \in ret'.jobs}
              n == IF ret'.limit < Cardinality(rows) THEN ret'.limit ELSE Cardinality(rows)
          IN  /\ got \subseteq rows
              /\ Cardinality(got) = n
              /\ Cardinality(ret'.jobs) = n
              /\ \A r \in ret'.jobs :
                   /\ r.status = jobs[r.id].status
                   /\ r.error = jobs[r.id].error
                   /\ r.status = "failed" => r.error # "none"
              /\ \A j \in got, k \in rows \ got : jobs[k].createdAt <= jobs[j].createdAt]_vars

\* listJobs(2) over three rows: the oldest row is left out, a failed job is returned
\* with its message
OldestJobCutOff ==
  /\ ret.op = "listJobs"
  /\ ret.limit = 2
  /\ Cardinality(ret.jobs) = 2
  /\ jobs[1].status # "none" /\ jobs[1].createdAt < jobs[2].createdAt
  /\ 1 \notin {r.id : r \in ret.jobs}
  /\ \E r \in ret.jobs : r.status = "failed" /\ r.error # "none"

\* C26: every write of failed to a job's row comes with a job-failed event carrying
\* the job's id and the recorded message, every write of completed with a
\* job-completed event carrying the job's id and the image id, and no run of a job
\* emits both events.
Emitted(j) == {events'[j][i] : i \in (Len(events[j]) + 1)..Len(events'[j])}

EventsFollowStatus ==
  /\ [][\A j \in JobIds :
          /\ Count(trail'[j], "markFailed") > Count(trail[j], "markFailed") =>
               \E e \in Emitted(j) :
                 /\ e.event = "job-failed"
                 /\ e.payload = [jobId |-> j, message |-> jobs'[j].error]
          /\ Count(trail'[j], "markCompleted") > Count(trail[j], "markCompleted") =>
               \E e \in Emitted(j) :
                 /\ e.event = "job-completed"
                 /\ e.payload = [jobId |-> j, imageId |-> jobs'[j].resultId]]_vars
  /\ [](\A j \in JobIds :
          \A a, b \in DOMAIN events[j] :
            events[j][a].run = events[j][b].run => events[j][a].event = events[j][b].event)

\* C27: the rollback of persistGeneratedImage removes what it created in reverse order
\* of creation (original, thumbnail, image row, then file and row of each reference
\* image in turn): no step removes an artifact of the operation while one created
\* after it is still there.
CreatedOf(img, fs, imgs, rows) ==
  {1 : x \in {Orig(img)} \cap fs} \cup {2 : x \in {Thumb(img)} \cap fs}
    \cup {3 : x \in {img} \cap imgs}
    \cup {2 + 2 * f[3] : f \in {g \in fs : g[1] = "ref" /\ g[2] = img}}
    \cup {3 + 2 * r[2] : r \in {q \in rows : q[1] = img}}

UndoInReverse ==
  [][\A j \in JobIds :
       LET img == Img(j)
           before == CreatedOf(img, files, images, refRows)
           after == CreatedOf(img, files', images', refRows')
       IN  \A removed \in before \ after : \A kept \in after : kept < removed]_vars

\* C28: validateApiKey never throws: a blank key, a non-OK response (readable body or
\* not), a timeout and a network error each give valid = false with a message, and
\* valid = true is given only for an OK response to a key that is not blank.
KeyCheckNeverThrows ==
  ret.op = "validateApiKey" =>
    LET result == ret.result
        answer == ret.answer
        blank == \A i \in DOMAIN ret.apiKey : ret.apiKey[i] = "space"
        encodable == \A i \in DOMAIN ret.apiKey : ret.apiKey[i] # "surrogate"
        ok == answer.kind = "http" /\ answer.status >= 200 /\ answer.status <= 299
    IN  /\ ~result.threw
        /\ result.valid \in BOOLEAN
        /\ DOMAIN result.message = {"text", "status"}
        /\ result.valid <=> (~blank /\ encodable /\ ok)
        /\ blank => result.message.text = "API-Schluessel darf nicht leer sein."
        /\ ~blank /\ encodable /\ answer.kind = "timeout" =>
             result.message.text = "Request timed out."
        /\ ~blank /\ encodable /\ answer.kind = "http" /\ ~ok /\ answer.body \in {"no message", "not json"} =>
             result.message = [text |-> "Gemini API request failed with", status |-> answer.status]

\* a key that is not blank, a 403 whose body is not JSON: invalid, with the
\* message naming the status
UnreadableBodyReported ==
  /\ ret.op = "validateApiKey"
  /\ ret.apiKey = <<"char", "char">>
  /\ ret.answer.status = 403
  /\ ret.answer.body = "not json"
  /\ ~ret.result.valid
  /\ ret.result.message.status = 403

\* C29: for a model of the fast (Flash) tier and any requested resolution the payload
\* carries the lowest resolution that tier supports; for the pro model it carries
\* the requested resolution unchanged.
ResolutionRank == [r \in ALLOWED_RESOLUTIONS |->
                     CASE r = "512px" -> 0 [] r = "1K" -> 1 [] r = "2K" -> 2 [] r = "4K" -> 3]
Lowest(S) == CHOOSE r \in S : \A q \in S : ResolutionRank[r] <= ResolutionRank[q]

ReferencesWithinCap ==
  ret.op = "resolveReferenceImages" =>
    LET references == ret.references
        explicit == ret.request.referenceImages
        kept == Min(Len(explicit), MAX_REFERENCE_IMAGES)
        listed == ListProjectBrandAssets(ret.assets, ret.request.projectId)
    IN  /\ Len(references) <= MAX_REFERENCE_IMAGES
        /\ Len(references) >= kept
        /\ \A i \in 1..kept : references[i] = explicit[i]
        /\ Len(references) - kept <= MAX_REFERENCE_IMAGES - kept
        /\ Len(references) > kept =>
             /\ ret.request.projectId \notin {Absent, ""}
             /\ kept < MAX_REFERENCE_IMAGES
        /\ \A i \in (kept + 1)..Len(references) :
             /\ references[i].label = "style"
             /\ \E k \in 1..Len(listed) : listed[k].id = references[i].id

BrandAssetsFillLastSlots ==
  /\ ret.op = "resolveReferenceImages"
  /\ Len(ret.request.referenceImages) = MAX_REFERENCE_IMAGES - 2
  /\ ret.request.projectId = "p1"
  /\ Len(ret.assets) = MaxAssets
  /\ \A i \in 1..Len(ret.assets) : ret.assets[i].file = "ok"
  /\ Len(ret.references) = MAX_REFERENCE_IMAGES
  /\ ret.references[MAX_REFERENCE_IMAGES - 1] = [id |-> <<"asset", 1>>, label |-> "style"]
  /\ ret.references[MAX_REFERENCE_IMAGES] = [id |-> <<"asset", 2>>, label |-> "style"]

\* C31: the system instruction sent for a job is the concatenation, in this order, of
\* the fragments that are not empty: the inline prompt of the request, the prompt of
\* its project unless it equals the inline one, the guidelines of the project under
\* their label, the strict-mode instruction iff the project has strict mode on; a
\* job with no project and no inline prompt is sent no system instruction.
HasProject(request) ==
  request.projectId # Null /\ Trim(request.projectId) = <<"a">>

ExpectedFragments(request, project) ==
  LET inline == IF request.systemPrompt = Null THEN <<>> ELSE Trim(request.systemPrompt)
      own == IF project.systemPrompt = Null \/ project.systemPrompt = inline THEN <<>>
             ELSE project.systemPrompt
      guide == IF project.brandGuidelines = Null THEN <<>>
               ELSE GuidelinesLabel \o project.brandGuidelines
      strict == IF project.brandStrictMode THEN StrictFragment ELSE <<>>
      NonEmpty(f) == f # <<>>
  IN  SelectSeq(IF HasProject(request) THEN <<inline, own, guide, strict>> ELSE <<inline>>,
                NonEmpty)

SystemPromptAssembled ==
  ret.op = "resolveSystemPrompt" =>
    LET expected == ExpectedFragments(ret.request, ret.project)
    IN  /\ expected = <<>> => ret.systemInstruction = Null
        /\ expected # <<>> => ret.systemInstruction = Join(expected)
        /\ Len(expected) > 1 => \E i \in 1..Len(ret.systemInstruction) :
                                  ret.systemInstruction[i] = "newline"

InlineThenProjectContext ==
  /\ ret.op = "resolveSystemPrompt"
  /\ ret.request.systemPrompt = <<"space", "a">>
  /\ ret.request.projectId = <<"a">>
  /\ ret.project = [systemPrompt |-> <<"a">>, brandGuidelines |-> <<"b">>,
                    brandStrictMode |-> TRUE]
  /\ ret.systemInstruction =
       <<"a", "newline", "newline", "Markenidentitaet und Brand-Richtlinien:", "newline",
         "b", "newline", "newline", "Strikter On-Brand-Modus">>

\* C32: in one process run a job is started at most once: however kick is re-entered
\* while other jobs are suspended, no job is marked running a second time after the
\* scheduler was constructed, and a job is started only from pending (as it was, or
\* as the call in progress inserted it) with no execution of it in flight.
RunsSinceBoot(tr) ==
  Cardinality({i \in DOMAIN tr :
                 /\ tr[i] = "markRunning"
                 /\ \A k \in DOMAIN tr : k > i => tr[k] # "requeue"})

StartedFromPending ==
  \A j \in JobIds : Started(j) =>
    /\ jobs[j].status \in {"pending", "none"}
    /\ exec[j].pc = "idle"
    /\ Run(trail', j) = Run(trail, j) + 1

StartedAtMostOnce ==
  /\ [](\A j \in JobIds : RunsSinceBoot(trail[j]) <= 1)
  /\ [][StartedFromPending]_vars

\* a third job started when a slot came free, next to a suspended one
StartedBesideSuspended ==
  \E a, b, c \in JobIds :
    /\ jobs[a].status \in {"completed", "failed"} /\ Run(trail, a) = 1
    /\ jobs[b].status = "running" /\ exec[b].pc = "orig"
    /\ jobs[c].status = "running" /\ exec[c].pc = "generate"
    /\ a < c /\ b < c
    /\ activeRuns = 2
    /\ concurrency = 2

\* C33: activeRuns is the number of job executions started and not yet finished,
\* which is the number of rows this scheduler marked running and has not finished
\* with; it is never negative.
InFlight == {j \in JobIds : exec[j].pc # "idle"}

ActiveRunsCountsExecutions ==
  /\ activeRuns >= 0
  /\ phase = "up" =>
       /\ activeRuns = Cardinality(InFlight)
       /\ InFlight = RunningJobs

\* C34: a job reaches its remote call only marked running, with an API key configured
\* and with the ceilings leaving room for its estimate next to the spend and the other
\* open jobs; a job whose start finds no key or no room goes running -> failed in
\* that step, with no remote call and no artifact.
RoomAtStart(t, log, j) ==
  LET others == SumOver({k \in JobIds : k # j /\ t[k].status \in Open},
                        [k \in JobIds |-> IF t[k].resolution = "4K" THEN Cost4K
                                          ELSE CostDefault])
      own == IF t[j].resolution = "4K" THEN Cost4K ELSE CostDefault
  IN  /\ monthlyLimit # NoLimit =>
           SumSeq(SubSeq(log, aged + 1, Len(log))) + others + own <= monthlyLimit
      /\ totalLimit # NoLimit => SumSeq(log) + others + own <= totalLimit

NothingOf(j) ==
  LET img == ImageId(trail', j)
  IN  /\ img \notin images'
      /\ \A r \in refRows' : r[1] # img
      /\ \A f \in files' : f[2] # img
      /\ calls'[j] = calls[j]
      /\ exec'[j] = Idle

StartedGuarded ==
  \A j \in JobIds : Started(j) =>
    \/ /\ exec'[j].pc = "generate"
       /\ jobs'[j].status = "running"
       /\ apiKey
       /\ RoomAtStart(jobs', usageLog', j)
    \/ /\ jobs'[j].status = "failed"
       /\ jobs'[j].error \in {"no api key", "limit", "storage"}
       /\ jobs'[j].error = "no api key" => ~apiKey
       /\ ~apiKey => jobs'[j].error \in {"no api key", "storage"}
       /\ SubSeq(trail'[j], Len(trail[j]) + 1, Len(trail'[j])) \in
            {<<"markRunning", "markFailed">>, <<"insert", "markRunning", "markFailed">>}
       /\ NothingOf(j)

NoStartRejection == \A j \in JobIds : jobs[j].error # "limit"

\* C36: once cancel(jobId) has returned true the job stays cancelled: it is never
\* marked running, no execution and no remote call of it exists, and no later
\* admission decision counts its estimate as reserved.
WasCancelled(j) == \E i \in DOMAIN trail[j] : trail[j][i] = "markCancelled"

CancelledForGood ==
  \A j \in JobIds : WasCancelled(j) =>
    /\ jobs[j].status = "cancelled"
    /\ trail[j][Len(trail[j])] = "markCancelled"
    /\ exec[j] = Idle
    /\ jobs[j].resultId = NoImage

CostOf(t, j) == IF t[j].resolution = "4K" THEN Cost4K ELSE CostDefault

\* an enqueue decides on the spend, the rows that are pending or running, and the
\* rows it asks for; the reserved cost a rejection reports is that of the pending
\* and running rows
DecidedWithoutCancelled ==
  ret = NoRet /\ ret'.op = "enqueue" =>
    IF ret'.error # NoError
    THEN ret'.error.reserved = OpenCost
    ELSE LET asked == SumOver(ret'.queuedJobIds, [j \in JobIds |-> CostOf(jobs', j)])
         IN  /\ monthlyLimit # NoLimit => MonthSpend + OpenCost + asked <= monthlyLimit
             /\ totalLimit # NoLimit => AllSpend + OpenCost + asked <= totalLimit

CancelledStaysOut == []CancelledForGood /\ [][DecidedWithoutCancelled]_vars

\* an enqueue admitted into the room a cancelled job left
AdmittedAfterCancel ==
  /\ ret.op = "enqueue"
  /\ ret.error = NoError
  /\ apiKey
  /\ \E k \in JobIds \ ret.queuedJobIds :
       /\ WasCancelled(k)
       /\ monthlyLimit # NoLimit
       /\ MonthSpend + OpenCost <= monthlyLimit
       /\ MonthSpend + OpenCost + CostOf(jobs, k) > monthlyLimit

\* C37: the requeue of the constructor writes to running rows only: every other row
\* is left as it is, no row appears or disappears, and a requeued row keeps its
\* request, its priority, its createdAt and with them its place in the dispatch order.
RequeueFrame ==
  phase = "down" /\ phase' = "requeued" =>
    /\ \A j \in JobIds : jobs[j].status # "running" => jobs'[j] = jobs[j]
    /\ \A j \in JobIds :
         jobs[j].status = "running" =>
           /\ jobs'[j].status = "pending"
           /\ jobs'[j].resolution = jobs[j].resolution
           /\ jobs'[j].nrefs = jobs[j].nrefs
           /\ jobs'[j].batchCount = jobs[j].batchCount
           /\ jobs'[j].priority = jobs[j].priority
           /\ jobs'[j].createdAt = jobs[j].createdAt
    /\ \A j, k \in JobIds :
         jobs[j].status # "none" /\ jobs[k].status # "none" =>
           (Before(jobs', j, k) <=> Before(jobs, j, k))

RequeueTouchesRunningOnly == [][RequeueFrame]_vars

\* a requeued row next to a cancelled and a completed one
RequeuedAmongOthers ==
  /\ phase = "requeued"
  /\ \E a, b, c \in JobIds :
       /\ jobs[a].status = "pending" /\ trail[a][Len(trail[a])] = "requeue"
       /\ jobs[b].status = "cancelled" /\ jobs[b].completedAt
       /\ jobs[c].status = "completed" /\ jobs[c].resultId # NoImage
       /\ jobs[a].createdAt < jobs[b].createdAt

\* C38: the request stored with a job, its priority and its createdAt are the same
\* after every step as before it, whatever is written to the row; resolving the
\* prompt for execution leaves the request of the job as it was read and changes
\* a copy.
RequestKept ==
  /\ \A j \in JobIds :
       jobs[j].status # "none" =>
         /\ jobs'[j].status # "none"
         /\ jobs'[j].resolution = jobs[j].resolution
         /\ jobs'[j].nrefs = jobs[j].nrefs
         /\ jobs'[j].batchCount = jobs[j].batchCount
         /\ jobs'[j].priority = jobs[j].priority
         /\ jobs'[j].createdAt = jobs[j].createdAt
  /\ ret = NoRet /\ ret'.op = "resolveSystemPrompt" => ret'.job = ret'.request

StoredRequestKept == [][RequestKept]_vars

\* a prompt resolved into a copy, and a 4K job that was started, requeued, started
\* again and completed, next to a cancelled one
ResolvedIntoCopy ==
  /\ ret.op = "resolveSystemPrompt"
  /\ ret.sent.systemPrompt # ret.request.systemPrompt
  /\ ret.job = ret.request
  /\ \E j, k \in JobIds :
       /\ jobs[j].resolution = "4K"
       /\ trail[j] = <<"insert", "markRunning", "requeue", "markRunning", "markCompleted">>
       /\ jobs[k].status = "cancelled"

====
